---- MODULE Spec2Model ----
(***************************************************************************)
(* Model of Kudu's leader election (src/kudu/consensus/leader_election.cc):*)
(* the VoteCounter class, and one LeaderElection object driven by Run and  *)
(* by the vote-response callbacks of its peers, which run on other threads;*)
(* of the log anchor registry (log_anchor_registry.cc): one                *)
(* LogAnchorRegistry, the LogAnchor objects its callers hand to it and a   *)
(* MinLogIndexAnchorer; of a DeltaMemStore under concurrent Update calls   *)
(* (deltamemstore.h); and of the DeltaIteratorMerger                       *)
(* (delta_iterator_merger.cc) over child iterators that answer as they     *)
(* like.                                                                   *)
(***************************************************************************)
EXTENDS Integers, Sequences, FiniteSets, TLC

(***************************************************************************)
(* Bounds of the model.                                                    *)
(***************************************************************************)
\* Peers of the Raft config other than the candidate.
NumPeers == 2
\* Terms above the election's term that a responder may report.
TermsAbove == 2
\* Voters expected by a stand-alone VoteCounter, at most.
MaxVoters == 3
\* Distinct voter uuids that call a stand-alone VoteCounter.
NumCallers == 4
\* LogAnchor objects that the callers of the registry own.
NumAnchors == 3
\* Anchors, among the others, that are registered and unregistered while a
\* MinLogIndexAnchorer is at work: 1..NumOtherHolders.
NumOtherHolders == 1
\* Log indexes that an anchor may be registered at: 1..MaxLogIndex.
MaxLogIndex == 3
\* Threads that call DeltaMemStore::Update, once each.
NumUpdaters == 2
\* Rows of the rowset that the updates touch: row indexes 0..NumRows - 1.
NumRows == 1
\* Timestamps that an update may carry: Timestamp::kMin..MaxTimestamp.
MaxTimestamp == 2
\* Log indexes of the ops that update the DMS: 1..MaxOpIndex.
MaxOpIndex == 2
\* Delta stores that DeltaIteratorMerger::Create may be given.
NumStores == 2
\* Entries that the children of a merger append in one collection, at most.
MaxCollected == 2
\* Deltas that the children of a merger select, at most.
MaxSelected == 2

\* Threads that call WaitForCatchUp on the HMS notification log listener.
NumWaiters == 2

\* Calls of Poll that the listener's loop may begin.
MaxPolls == 3

\* Documents that the message of a notification event may hold.
NumDocuments == 3

(***************************************************************************)
(* Values.                                                                 *)
(***************************************************************************)
VOTE_GRANTED == "VOTE_GRANTED"
VOTE_DENIED == "VOTE_DENIED"
ElectionVote == {VOTE_GRANTED, VOTE_DENIED}

OK == "OK"
InvalidArgument == "InvalidArgument"
IllegalState == "IllegalState"

\* The decision a caller's variable holds before GetDecision writes it.
Unset == "unset"
NotFound == "NotFound"

(***************************************************************************)
(* VoteCounter                                                             *)
(***************************************************************************)
\* VoteCounter::VoteCounter. The CHECKs of the constructor are the
\* conditions under which a counter exists at all.
VoteCounterArgsOk(num_voters, majority_size) ==
    /\ majority_size <= num_voters
    /\ num_voters > 0
    /\ majority_size > 0

NewVoteCounter(num_voters, majority_size) ==
    [num_voters |-> num_voters,
     majority_size |-> majority_size,
     votes |-> <<>>,
     yes_votes |-> 0,
     no_votes |-> 0]

\* The "valid vote" tail of RegisterVote: InsertOrDie and the switch.
StoreVote(c, voter_uuid, vote) ==
    [c EXCEPT !.votes = (voter_uuid :> vote) @@ c.votes,
              !.yes_votes = IF vote = VOTE_GRANTED THEN @ + 1 ELSE @,
              !.no_votes = IF vote = VOTE_DENIED THEN @ + 1 ELSE @]

\* A RegisterVote that lets a voter change their mind: the vote is replaced
\* and the tallies follow.
RegisterVoteChangeOfMind(c, voter_uuid, vote, is_duplicate) ==
    IF voter_uuid \in DOMAIN c.votes
    THEN IF c.votes[voter_uuid] # vote
         THEN [counter |-> [c EXCEPT !.votes[voter_uuid] = vote,
                                     !.yes_votes = IF vote = VOTE_GRANTED THEN @ + 1 ELSE @ - 1,
                                     !.no_votes = IF vote = VOTE_DENIED THEN @ + 1 ELSE @ - 1],
               status |-> OK, is_duplicate |-> FALSE]
         ELSE [counter |-> c, status |-> OK, is_duplicate |-> TRUE]
    ELSE IF c.yes_votes + c.no_votes = c.num_voters
         THEN [counter |-> c, status |-> InvalidArgument, is_duplicate |-> is_duplicate]
         ELSE [counter |-> StoreVote(c, voter_uuid, vote),
               status |-> OK, is_duplicate |-> FALSE]

\* A RegisterVote that replaces the recorded vote of a voter who flips it.
RegisterVoteOverwrite(c, voter_uuid, vote, is_duplicate) ==
    IF voter_uuid \in DOMAIN c.votes
    THEN IF c.votes[voter_uuid] # vote
         THEN [counter |-> [c EXCEPT !.votes[voter_uuid] = vote],
               status |-> InvalidArgument, is_duplicate |-> is_duplicate]
         ELSE [counter |-> c, status |-> OK, is_duplicate |-> TRUE]
    ELSE IF c.yes_votes + c.no_votes = c.num_voters
         THEN [counter |-> c, status |-> InvalidArgument, is_duplicate |-> is_duplicate]
         ELSE [counter |-> StoreVote(c, voter_uuid, vote),
               status |-> OK, is_duplicate |-> FALSE]

\* A RegisterVote that counts a repeated vote again.
RegisterVoteCountDup(c, voter_uuid, vote, is_duplicate) ==
    IF voter_uuid \in DOMAIN c.votes
    THEN IF c.votes[voter_uuid] # vote
         THEN [counter |-> c, status |-> InvalidArgument, is_duplicate |-> is_duplicate]
         ELSE [counter |-> StoreVote(c, voter_uuid, vote),
               status |-> OK, is_duplicate |-> TRUE]
    ELSE IF c.yes_votes + c.no_votes = c.num_voters
         THEN [counter |-> c, status |-> InvalidArgument, is_duplicate |-> is_duplicate]
         ELSE [counter |-> StoreVote(c, voter_uuid, vote),
               status |-> OK, is_duplicate |-> FALSE]

\* A RegisterVote without the sanity check on the number of voters.
RegisterVoteNoLimit(c, voter_uuid, vote, is_duplicate) ==
    IF voter_uuid \in DOMAIN c.votes
    THEN IF c.votes[voter_uuid] # vote
         THEN [counter |-> c, status |-> InvalidArgument, is_duplicate |-> is_duplicate]
         ELSE [counter |-> c, status |-> OK, is_duplicate |-> TRUE]
    ELSE [counter |-> StoreVote(c, voter_uuid, vote),
          status |-> OK, is_duplicate |-> FALSE]

\* VoteCounter::RegisterVote. is_duplicate is the value of the caller's
\* variable on entry: the function writes it only on the paths that return OK.
RegisterVote(c, voter_uuid, vote, is_duplicate) ==
    IF voter_uuid \in DOMAIN c.votes
    THEN IF c.votes[voter_uuid] # vote
         THEN [counter |-> c, status |-> InvalidArgument, is_duplicate |-> is_duplicate]
         ELSE [counter |-> c, status |-> OK, is_duplicate |-> TRUE]
    ELSE IF c.yes_votes + c.no_votes = c.num_voters
         THEN [counter |-> c, status |-> InvalidArgument, is_duplicate |-> is_duplicate]
         ELSE [counter |-> StoreVote(c, voter_uuid, vote),
               status |-> OK, is_duplicate |-> FALSE]

\* An IsDecided that needs one grant more than the majority.
IsDecidedAboveMajority(c) ==
    \/ c.yes_votes > c.majority_size
    \/ c.no_votes > c.num_voters - c.majority_size

\* An IsDecided that needs one more denial than the code does.
IsDecidedLateDenial(c) ==
    \/ c.yes_votes >= c.majority_size
    \/ c.no_votes > c.num_voters - c.majority_size + 1

\* VoteCounter::IsDecided
IsDecided(c) ==
    \/ c.yes_votes >= c.majority_size
    \/ c.no_votes > c.num_voters - c.majority_size

\* A GetDecision that reports a denial one vote early.
GetDecisionEarlyDenial(c, decision) ==
    IF c.yes_votes >= c.majority_size
    THEN [status |-> OK, decision |-> VOTE_GRANTED]
    ELSE IF c.no_votes >= c.num_voters - c.majority_size
         THEN [status |-> OK, decision |-> VOTE_DENIED]
         ELSE [status |-> IllegalState, decision |-> decision]

\* VoteCounter::GetDecision. decision is the caller's variable on entry; it
\* is written only when the status is OK.
GetDecision(c, decision) ==
    IF c.yes_votes >= c.majority_size
    THEN [status |-> OK, decision |-> VOTE_GRANTED]
    ELSE IF c.no_votes > c.num_voters - c.majority_size
         THEN [status |-> OK, decision |-> VOTE_DENIED]
         ELSE [status |-> IllegalState, decision |-> decision]

\* VoteCounter::GetTotalVotesCounted
GetTotalVotesCounted(c) == c.yes_votes + c.no_votes

\* VoteCounter::GetTotalExpectedVotes (declared in leader_election.h)
GetTotalExpectedVotes(c) == c.num_voters

\* VoteCounter::AreAllVotesIn
AreAllVotesIn(c) == GetTotalVotesCounted(c) = c.num_voters

\* The voters recorded with a given vote, as GetElectionSummary lists them.
VotersWith(c, vote) == {u \in DOMAIN c.votes : c.votes[u] = vote}

(***************************************************************************)
(* ElectionResult                                                          *)
(***************************************************************************)
NoResult == [set |-> FALSE]

\* ElectionResult::ElectionResult (the request and the start time, which no
\* step changes, are left out).
ElectionResult(election_decision, highest_term, msg) ==
    [set |-> TRUE,
     decision |-> election_decision,
     highest_voter_term |-> highest_term,
     message |-> msg]

(***************************************************************************)
(* The Raft config, the request and the responses of the peers.            *)
(***************************************************************************)
\* request_.candidate_uuid()
CandidateUuid == 0
\* request_.candidate_term(), which election_term() returns.
ElectionTerm == 1

OtherPeers == 1..NumPeers
MaxTerm == ElectionTerm + TermsAbove
Terms == ElectionTerm..MaxTerm

VOTER == "VOTER"
NON_VOTER == "NON_VOTER"

Max(a, b) == IF a >= b THEN a ELSE b

\* state->rpc.status() and state->response, as the callback of voter v reads
\* them. An unset responder_term reads as 0.
Response(rpc_ok, has_error, responder_uuid, has_term, term, granted) ==
    [rpc_ok |-> rpc_ok,
     has_error |-> has_error,
     responder_uuid |-> responder_uuid,
     has_responder_term |-> has_term,
     responder_term |-> term,
     vote_granted |-> granted]

NoResponse == Response(TRUE, FALSE, CandidateUuid, FALSE, 0, FALSE)

\* Responses without an RPC error, a tablet error or a uuid mismatch. A
\* granted vote carries the responder's term, and in a real election that
\* term is the election's (the DCHECKs of HandleVoteGrantedUnlocked).
CleanResponses(v, pre) ==
    {Response(TRUE, FALSE, v, TRUE, t, TRUE) : t \in IF pre THEN Terms ELSE {ElectionTerm}}
    \cup {Response(TRUE, FALSE, v, TRUE, t, FALSE) : t \in Terms}
    \cup {Response(TRUE, FALSE, v, FALSE, 0, FALSE)}

\* What the vote fields of a failed response may say.
ErrorPayloads ==
    {<<TRUE, ElectionTerm, TRUE>>, <<TRUE, MaxTerm, FALSE>>}

ErrorResponses(v) ==
    UNION {{Response(FALSE, FALSE, v, p[1], p[2], p[3]),
            Response(TRUE, TRUE, v, p[1], p[2], p[3]),
            Response(TRUE, FALSE, CandidateUuid, p[1], p[2], p[3])} : p \in ErrorPayloads}

Responses(v, pre) == CleanResponses(v, pre) \cup ErrorResponses(v)

(***************************************************************************)
(* State.                                                                  *)
(***************************************************************************)
VARIABLES
    \* A stand-alone VoteCounter and the last call made on it.
    vc,
    vc_last,
    \* config_: the member type of every peer but the candidate.
    config,
    \* proxy_factory_: whether NewProxy succeeds for a peer.
    proxy_factory,
    \* request_.is_pre_election()
    is_pre_election,
    \* The fields of the LeaderElection that lock_ guards.
    vote_counter,
    voter_state,
    result,
    has_responded,
    highest_voter_term,
    \* The thread in Run: its position, other_voter_uuids and the loop index.
    run_pc,
    other_voter_uuids,
    run_i,
    \* The vote RPC of each peer and the thread running its callback.
    cb_pc,
    \* The results handed to decision_callback_, in order.
    delivered,
    \* lock_: the threads that hold it (none or one). A thread is named by the
    \* uuid it works for: the candidate's for Run, the voter's for a callback.
    lock

VARIABLES
    \* LogAnchorRegistry::anchors_, the multimap from log index to anchor, as
    \* the sequence of its entries in iteration order.
    anchors_,
    \* The LogAnchor objects: is_registered, log_index and owner of each.
    \* (when_registered is only printed by DumpAnchorInfo and is left out.)
    anchor,
    \* The last call made on the registry: its arguments, whether its anchor
    \* was registered when it began, the entries before a Register, and what
    \* it returned.
    registry_last

VARIABLES
    \* MinLogIndexAnchorer::minimum_log_index_ of the one anchorer.
    minimum_log_index_,
    \* Whether the anchorer is alive, destroyed, or its destructor's CHECK_OK
    \* has aborted the process.
    anchorer_state,
    \* The last call made on the anchorer, with what it returned; tick flips
    \* at every call.
    anchorer_last,
    \* The log indexes passed to AnchorIfMinimum so far, and whether
    \* ReleaseAnchor has been called.
    anchorer_calls

VARIABLES
    \* DeltaMemStore::tree_: the deltas, each with its key (row_idx, timestamp,
    \* disambiguator) and the index of the op that made it.
    tree_,
    highest_timestamp_,
    disambiguator_sequence_number_,
    \* The Update call of each updater thread: its position, its arguments,
    \* the disambiguator of the key it is trying, and the largest
    \* disambiguator of a finished update of the same row and timestamp that
    \* it found when it began (-1 if none).
    upd,
    \* How many Update calls have returned OK.
    updates_ok

\* The delta iterator merger: the iterator that Create has set, the children
\* of the merger when it is one, the merger's running count, and the last
\* call with what it did.
VARIABLES
    created,
    iters_,
    total_deltas_selected_in_prepare_,
    merger_last

\* HmsNotificationLogListenerTask: the fields that lock_ guards, the locals
\* callback_batch and s of RunLoop (poll_status) and its position, the statuses of the
\* calls of Poll so far ("running" for the one in progress), the
\* WaitForCatchUp call of each waiter, the invocations of each waiter's
\* callback, and the position of Shutdown.
VARIABLES
    closing_,
    catch_up_callbacks_,
    callback_batch,
    \* RunLoop's local s
    poll_status,
    loop_pc,
    polls,
    waiter,
    invocations,
    shutdown_pc

\* The last call of ParseMessage: the handler that made it, the event, the
\* status returned and the document left in *message.
VARIABLE parse_last

registryVars == <<anchors_, anchor, registry_last>>
dmsVars ==
    <<tree_, highest_timestamp_, disambiguator_sequence_number_, upd, updates_ok>>
anchorerVars == <<minimum_log_index_, anchorer_state, anchorer_last, anchorer_calls>>
vcVars == <<vc, vc_last>>
electionVars ==
    <<config, proxy_factory, is_pre_election, vote_counter, voter_state, result,
      has_responded, highest_voter_term, run_pc, other_voter_uuids, run_i, cb_pc,
      delivered, lock>>
mergerVars == <<created, iters_, total_deltas_selected_in_prepare_, merger_last>>
listenerVars ==
    <<closing_, catch_up_callbacks_, callback_batch, poll_status, loop_pc, polls, waiter,
      invocations, shutdown_pc>>
hmsVars == <<listenerVars, parse_last>>
vars == <<vcVars, electionVars, registryVars, anchorerVars, dmsVars, mergerVars, hmsVars>>
\* What the steps of each part leave alone.
notVCVars == <<electionVars, registryVars, anchorerVars, dmsVars, mergerVars, hmsVars>>
notElectionVars == <<vcVars, registryVars, anchorerVars, dmsVars, mergerVars, hmsVars>>
notRegistryVars == <<vcVars, electionVars, anchorerVars, dmsVars, mergerVars, hmsVars>>
notAnchorerVars == <<vcVars, electionVars, dmsVars, mergerVars, hmsVars>>
notDMSVars == <<vcVars, electionVars, mergerVars, hmsVars>>
notMergerVars == <<vcVars, electionVars, registryVars, anchorerVars, dmsVars, hmsVars>>
notListenerVars ==
    <<vcVars, electionVars, registryVars, anchorerVars, dmsVars, mergerVars, parse_last>>
notParseVars ==
    <<vcVars, electionVars, registryVars, anchorerVars, dmsVars, mergerVars, listenerVars>>

(***************************************************************************)
(* LogAnchor                                                               *)
(***************************************************************************)
Anchors == 1..NumAnchors
LogIndexes == 1..MaxLogIndex

\* consensus::kInvalidOpIdIndex (consensus/opid_util.h): no log index.
kInvalidOpIdIndex == -1

\* The one owner string the callers pass.
Owner == "owner"

\* LogAnchor::LogAnchor()
NewLogAnchor == [is_registered |-> FALSE, log_index |-> kInvalidOpIdIndex, owner |-> ""]

NoRegistryCall ==
    [op |-> "none", anchor |-> 0, log_index |-> kInvalidOpIdIndex, status |-> OK,
     earliest |-> kInvalidOpIdIndex, was_registered |-> FALSE, before |-> <<>>]

\* An empty registry, as constructed, and anchors nobody has registered.
RegistryIdle ==
    /\ anchors_ = <<>>
    /\ anchor = [a \in Anchors |-> NewLogAnchor]
    /\ registry_last = NoRegistryCall

(***************************************************************************)
(* MinLogIndexAnchorer                                                     *)
(***************************************************************************)
\* MinLogIndexAnchorer::anchor_, the anchor the anchorer owns.
AnchorerAnchor == NumAnchors

NoAnchorerCall ==
    [op |-> "none", log_index |-> kInvalidOpIdIndex, status |-> OK,
     minimum |-> kInvalidOpIdIndex, tick |-> FALSE]

\* MinLogIndexAnchorer::MinLogIndexAnchorer
AnchorerIdle ==
    /\ minimum_log_index_ = kInvalidOpIdIndex
    /\ anchorer_state = "live"
    /\ anchorer_last = NoAnchorerCall
    /\ anchorer_calls = [passed |-> {}, released |-> FALSE]

(***************************************************************************)
(* DeltaMemStore                                                           *)
(***************************************************************************)
Updaters == 1..NumUpdaters
RowIds == 0..(NumRows - 1)

\* Timestamp::kMin, the smallest timestamp.
kMin == 0
Timestamps == kMin..MaxTimestamp
OpIndexes == 1..MaxOpIndex

\* An updater thread that is not inside Update.
NoUpdate ==
    [pc |-> "idle", timestamp |-> kMin, row_idx |-> 0, op_index |-> kInvalidOpIdIndex,
     disambiguator |-> 0, floor |-> -1]

\* A DMS as created: empty, with no timestamp seen and no anchor.
DMSIdle ==
    /\ tree_ = {}
    /\ highest_timestamp_ = kMin
    /\ disambiguator_sequence_number_ = 0
    /\ upd = [t \in Updaters |-> NoUpdate]
    /\ updates_ok = 0

\* Everything but the VoteCounter and the election as constructed.
(***************************************************************************)
(* DeltaIteratorMerger. A child iterator is named after the store it        *)
(* iterates over.                                                          *)
(***************************************************************************)
Stores == 1..NumStores

\* The keys of the deltas that the iterators return: a row index and a
\* timestamp, which is above the "no value" of Timestamp::kMin.
DeltaKeys == RowIds \X (Timestamps \ {kMin})

\* The caller's iterator before any Create.
NoIterator == [kind |-> "none", iter |-> 0]

\* The last call on the merger: the children it invoked, in order, and what
\* they were given and answered; the status or value it returned; the
\* running count before it; the vector it was given and the vector it left.
NoMergerCall ==
    [op |-> "none", status |-> OK, invoked |-> <<>>,
     results |-> [c \in Stores |-> OK], seeds |-> <<>>,
     added |-> [c \in Stores |-> 0], before |-> 0,
     answers |-> [c \in Stores |-> FALSE], value |-> FALSE,
     given |-> <<>>, appended |-> [c \in Stores |-> <<>>], out |-> <<>>]

\* No iterator has been created.
MergerIdle ==
    /\ created = NoIterator
    /\ iters_ = <<>>
    /\ total_deltas_selected_in_prepare_ = 0
    /\ merger_last = NoMergerCall

Waiters == 1..NumWaiters

\* A waiter that has not called WaitForCatchUp.
NoWait == [pc |-> "idle", enqueued_poll |-> 0, status |-> OK]

\* The listener as Init leaves it: the thread is about to call Poll.
ListenerIdle ==
    /\ closing_ = FALSE
    /\ catch_up_callbacks_ = <<>>
    /\ callback_batch = <<>>
    /\ poll_status = OK
    /\ loop_pc = "poll"
    /\ polls = <<>>
    /\ waiter = [w \in Waiters |-> NoWait]
    /\ invocations = [w \in Waiters |-> <<>>]
    /\ shutdown_pc = "none"

\* A Document as its constructor leaves it, and one after a parse error.
kNullDocument == [kind |-> "null", doc |-> 0]
ParseErrorDocument == [kind |-> "error", doc |-> 0]

NoParse ==
    [op |-> "none", handler |-> "none",
     event |-> [messageFormat |-> "", message |-> [text |-> 0, base64 |-> -2]],
     status |-> OK, message |-> kNullDocument]

HMSIdle ==
    /\ ListenerIdle
    /\ parse_last = NoParse

StoresIdle ==
    /\ RegistryIdle
    /\ AnchorerIdle
    /\ DMSIdle
    /\ MergerIdle
    /\ HMSIdle

(***************************************************************************)
(* A stand-alone VoteCounter under arbitrary calls.                        *)
(***************************************************************************)
CallerUuids == 1..NumCallers

NoCall ==
    [op |-> "none", voter_uuid |-> 0, vote |-> Unset, status |-> OK,
     dup_in |-> FALSE, is_duplicate |-> FALSE, ret |-> FALSE, decision |-> Unset]

VCIdle ==
    /\ vc = NewVoteCounter(1, 1)
    /\ vc_last = NoCall

\* No election object: every field at the value its constructor gives it.
ElectionIdle ==
    /\ config = [p \in OtherPeers |-> NON_VOTER]
    /\ proxy_factory = [p \in OtherPeers |-> TRUE]
    /\ is_pre_election = FALSE
    /\ vote_counter = NewVoteCounter(1, 1)
    /\ voter_state = <<>>
    /\ result = NoResult
    /\ has_responded = FALSE
    /\ highest_voter_term = 0
    /\ run_pc = "none"
    /\ other_voter_uuids = <<>>
    /\ run_i = 1
    /\ cb_pc = [p \in OtherPeers |-> "idle"]
    /\ delivered = <<>>
    /\ lock = {}

InitVC ==
    /\ \E n \in 1..MaxVoters : \E m \in 1..MaxVoters :
          /\ VoteCounterArgsOk(n, m)
          /\ vc = NewVoteCounter(n, m)
    /\ vc_last = NoCall
    /\ ElectionIdle
    /\ StoresIdle

VCRegisterVote ==
    /\ \E u \in CallerUuids, v \in ElectionVote, dup \in BOOLEAN :
          LET r == RegisterVote(vc, u, v, dup) IN
          /\ vc' = r.counter
          /\ vc_last' = [NoCall EXCEPT !.op = "RegisterVote", !.voter_uuid = u,
                                       !.vote = v, !.status = r.status,
                                       !.dup_in = dup,
                                       !.is_duplicate = r.is_duplicate]
    /\ UNCHANGED notVCVars

VCIsDecided ==
    /\ vc_last' = [NoCall EXCEPT !.op = "IsDecided", !.ret = IsDecided(vc)]
    /\ UNCHANGED <<vc, notVCVars>>

VCGetDecision ==
    /\ LET r == GetDecision(vc, Unset) IN
       vc_last' = [NoCall EXCEPT !.op = "GetDecision", !.status = r.status,
                                 !.decision = r.decision]
    /\ UNCHANGED <<vc, notVCVars>>

NextVC == VCRegisterVote \/ VCIsDecided \/ VCGetDecision

SpecVC == InitVC /\ [][NextVC]_vars

(***************************************************************************)
(* LeaderElection: the code that runs under lock_. The guarded fields are  *)
(* passed as one record e = [vote_counter, highest_voter_term, result].    *)
(***************************************************************************)
MsgWon == <<"achieved majority votes">>
MsgLost == <<"could not achieve majority">>
MsgHigherTerm(peer_uuid) == <<"Vote denied by peer with higher term", peer_uuid>>

Guarded == [vote_counter |-> vote_counter,
            highest_voter_term |-> highest_voter_term,
            result |-> result]

\* LeaderElection::RecordVoteUnlocked: a vote RegisterVote refuses is logged
\* and dropped, a duplicate is logged.
RecordVoteUnlocked(e, peer_uuid, vote) ==
    [e EXCEPT !.vote_counter = RegisterVote(@, peer_uuid, vote, FALSE).counter]

\* A HandleHigherTermUnlocked that replaces a result already constructed.
HandleHigherTermOverwrite(e, peer_uuid, response) ==
    [e EXCEPT !.result = ElectionResult(VOTE_DENIED, response.responder_term,
                                        MsgHigherTerm(peer_uuid))]

\* A HandleHigherTermUnlocked that reports the highest term seen so far.
HandleHigherTermSeen(e, peer_uuid, response) ==
    IF ~e.result.set
    THEN [e EXCEPT !.result = ElectionResult(VOTE_DENIED, e.highest_voter_term,
                                             MsgHigherTerm(peer_uuid))]
    ELSE e

\* A HandleHigherTermUnlocked that only logs.
HandleHigherTermLogOnly(e, peer_uuid, response) == e

\* LeaderElection::HandleHigherTermUnlocked
HandleHigherTermUnlocked(e, peer_uuid, response) ==
    IF ~e.result.set
    THEN [e EXCEPT !.result = ElectionResult(VOTE_DENIED, response.responder_term,
                                             MsgHigherTerm(peer_uuid))]
    ELSE e

\* LeaderElection::HandleVoteGrantedUnlocked
HandleVoteGrantedUnlocked(e, peer_uuid, response) ==
    RecordVoteUnlocked(e, peer_uuid, VOTE_GRANTED)

\* A HandleVoteDeniedUnlocked that also records the denial of a higher term.
HandleVoteDeniedRecording(e, peer_uuid, response) ==
    IF response.has_responder_term /\ response.responder_term > ElectionTerm
    THEN HandleHigherTermUnlocked(RecordVoteUnlocked(e, peer_uuid, VOTE_DENIED),
                                  peer_uuid, response)
    ELSE RecordVoteUnlocked(e, peer_uuid, VOTE_DENIED)

\* A HandleVoteDeniedUnlocked that cancels at the election's own term too.
HandleVoteDeniedAtTerm(e, peer_uuid, response) ==
    IF response.has_responder_term /\ response.responder_term >= ElectionTerm
    THEN HandleHigherTermUnlocked(e, peer_uuid, response)
    ELSE RecordVoteUnlocked(e, peer_uuid, VOTE_DENIED)

\* LeaderElection::HandleVoteDeniedUnlocked
HandleVoteDeniedUnlocked(e, peer_uuid, response) ==
    IF response.has_responder_term /\ response.responder_term > ElectionTerm
    THEN HandleHigherTermUnlocked(e, peer_uuid, response)
    ELSE RecordVoteUnlocked(e, peer_uuid, VOTE_DENIED)

\* A locked block that takes the responder's term as the highest voter term,
\* higher or not.
HandleResponseLastTerm(e, voter_uuid, response) ==
    IF ~response.rpc_ok
    THEN RecordVoteUnlocked(e, voter_uuid, VOTE_DENIED)
    ELSE IF response.has_error
    THEN RecordVoteUnlocked(e, voter_uuid, VOTE_DENIED)
    ELSE IF voter_uuid # response.responder_uuid
    THEN RecordVoteUnlocked(e, voter_uuid, VOTE_DENIED)
    ELSE LET e1 == IF response.has_responder_term
                   THEN [e EXCEPT !.highest_voter_term = response.responder_term]
                   ELSE e
         IN IF response.vote_granted
            THEN HandleVoteGrantedUnlocked(e1, voter_uuid, response)
            ELSE HandleVoteDeniedUnlocked(e1, voter_uuid, response)

\* A callback that trusts the payload of a response carrying a tablet-level
\* error.
HandleResponseNoTabletError(e, voter_uuid, response) ==
    IF ~response.rpc_ok
    THEN RecordVoteUnlocked(e, voter_uuid, VOTE_DENIED)
    ELSE IF voter_uuid # response.responder_uuid
    THEN RecordVoteUnlocked(e, voter_uuid, VOTE_DENIED)
    ELSE LET e1 == IF response.has_responder_term
                   THEN [e EXCEPT !.highest_voter_term =
                                      Max(@, response.responder_term)]
                   ELSE e
         IN IF response.vote_granted
            THEN HandleVoteGrantedUnlocked(e1, voter_uuid, response)
            ELSE HandleVoteDeniedUnlocked(e1, voter_uuid, response)

\* The locked block of LeaderElection::VoteResponseRpcCallback. A uuid
\* mismatch is logged DFATAL and, where that does not abort, counted as a
\* denial.
HandleResponseLocked(e, voter_uuid, response) ==
    IF ~response.rpc_ok
    THEN RecordVoteUnlocked(e, voter_uuid, VOTE_DENIED)
    ELSE IF response.has_error
    THEN RecordVoteUnlocked(e, voter_uuid, VOTE_DENIED)
    ELSE IF voter_uuid # response.responder_uuid
    THEN RecordVoteUnlocked(e, voter_uuid, VOTE_DENIED)
    ELSE LET e1 == IF response.has_responder_term
                   THEN [e EXCEPT !.highest_voter_term =
                                      Max(@, response.responder_term)]
                   ELSE e
         IN IF response.vote_granted
            THEN HandleVoteGrantedUnlocked(e1, voter_uuid, response)
            ELSE HandleVoteDeniedUnlocked(e1, voter_uuid, response)

\* A CheckForDecision that reports a decided election as won.
DecidedResultWon(e) ==
    IF ~e.result.set /\ IsDecided(e.vote_counter)
    THEN ElectionResult(VOTE_GRANTED, e.highest_voter_term, MsgWon)
    ELSE e.result

\* The result after the first half of the locked block of CheckForDecision.
DecidedResult(e) ==
    IF ~e.result.set /\ IsDecided(e.vote_counter)
    THEN LET d == GetDecision(e.vote_counter, Unset).decision IN
         ElectionResult(d, e.highest_voter_term,
                        IF d = VOTE_GRANTED THEN MsgWon ELSE MsgLost)
    ELSE e.result

\* A CheckForDecision that responds whenever there is a result.
CheckForDecisionAlways(to_respond) ==
    /\ ~result.set /\ IsDecided(vote_counter)
          => GetDecision(vote_counter, Unset).status = OK
    /\ result' = DecidedResult(Guarded)
    /\ has_responded' = (has_responded \/ result'.set)
    /\ to_respond = result'.set

\* The locked block of LeaderElection::CheckForDecision; to_respond is the
\* local the caller goes on with. CHECK_OK stops the process when
\* GetDecision fails.
CheckForDecisionLocked(to_respond) ==
    /\ ~result.set /\ IsDecided(vote_counter)
          => GetDecision(vote_counter, Unset).status = OK
    /\ result' = DecidedResult(Guarded)
    /\ has_responded' = (has_responded \/ result'.set)
    /\ to_respond = (result'.set /\ ~has_responded)

\* A CheckForDecision whose lock_guard lives to the end of the function, so
\* that the thread still holds lock_ when it calls decision_callback_.
LockHeldIntoCallback(self, to_respond) == IF to_respond THEN {self} ELSE {}

\* The holders of lock_ when thread self leaves the locked block of
\* CheckForDecision: the lock_guard's scope closes before the callback.
LockAfterCheck(self, to_respond) == {}

(***************************************************************************)
(* LeaderElection::Run                                                     *)
(***************************************************************************)
\* The VOTER peers other than the candidate, in config order.
RECURSIVE VotersFrom(_)
VotersFrom(p) ==
    IF p > NumPeers THEN <<>>
    ELSE IF config[p] = VOTER THEN <<p>> \o VotersFrom(p + 1)
    ELSE VotersFrom(p + 1)

\* VoterState of a peer as Run builds it.
NewVoterState(p) ==
    [peer_uuid |-> p,
     proxy_ok |-> proxy_factory[p],
     dest_uuid |-> CandidateUuid,
     response |-> NoResponse]

\* The majority the candidate asks for: floor(num_voters / 2) + 1.
MajoritySize(num_voters) == (num_voters \div 2) + 1

\* A candidate's counter: the caller sizes it for the VOTER peers of the
\* config and registers the candidate's own vote (Run CHECKs both).
SeededCounter(num_voters) ==
    RegisterVote(NewVoteCounter(num_voters, MajoritySize(num_voters)),
                 CandidateUuid, VOTE_GRANTED, FALSE).counter

Init ==
    /\ VCIdle
    /\ StoresIdle
    /\ config \in [OtherPeers -> {VOTER, NON_VOTER}]
    /\ proxy_factory \in [OtherPeers -> BOOLEAN]
    /\ \A p \in OtherPeers : config[p] = NON_VOTER => proxy_factory[p]
    /\ is_pre_election \in BOOLEAN
    /\ LET n == 1 + Cardinality({p \in OtherPeers : config[p] = VOTER}) IN
       /\ VoteCounterArgsOk(n, MajoritySize(n))
       /\ vote_counter = SeededCounter(n)
    /\ voter_state = <<>>
    /\ result = NoResult
    /\ has_responded = FALSE
    /\ highest_voter_term = 0
    /\ run_pc = "start"
    /\ other_voter_uuids = <<>>
    /\ run_i = 1
    /\ cb_pc = [p \in OtherPeers |-> "idle"]
    /\ delivered = <<>>
    /\ lock = {}

\* A Run that enters the loop without the first CheckForDecision.
RunStartNoCheck ==
    /\ run_pc = "start"
    /\ LET others == VotersFrom(1) IN
       /\ GetTotalVotesCounted(vote_counter) = 1
       /\ GetTotalVotesCounted(vote_counter) + Len(others)
             = GetTotalExpectedVotes(vote_counter)
       /\ other_voter_uuids' = others
       /\ voter_state' = [p \in {others[i] : i \in 1..Len(others)} |-> NewVoterState(p)]
    /\ run_pc' = "loop"
    /\ UNCHANGED <<notElectionVars, config, proxy_factory, is_pre_election, vote_counter, result,
                   has_responded, highest_voter_term, run_i, cb_pc, delivered, lock>>

\* A Run that builds a voter state for every peer before it looks at the
\* member type.
RunStartAllStates ==
    /\ run_pc = "start"
    /\ LET others == VotersFrom(1) IN
       /\ GetTotalVotesCounted(vote_counter) = 1
       /\ GetTotalVotesCounted(vote_counter) + Len(others)
             = GetTotalExpectedVotes(vote_counter)
       /\ other_voter_uuids' = others
       /\ voter_state' = [p \in OtherPeers |-> NewVoterState(p)]
    /\ run_pc' = "check"
    /\ UNCHANGED <<notElectionVars, config, proxy_factory, is_pre_election, vote_counter, result,
                   has_responded, highest_voter_term, run_i, cb_pc, delivered, lock>>

\* Run up to the first CheckForDecision: the voter states and the CHECKs.
RunStart ==
    /\ run_pc = "start"
    /\ LET others == VotersFrom(1) IN
       /\ GetTotalVotesCounted(vote_counter) = 1
       /\ GetTotalVotesCounted(vote_counter) + Len(others)
             = GetTotalExpectedVotes(vote_counter)
       /\ other_voter_uuids' = others
       /\ voter_state' = [p \in {others[i] : i \in 1..Len(others)} |-> NewVoterState(p)]
    /\ run_pc' = "check"
    /\ UNCHANGED <<notElectionVars, config, proxy_factory, is_pre_election, vote_counter, result,
                   has_responded, highest_voter_term, run_i, cb_pc, delivered, lock>>

\* CheckForDecision called by Run, up to the release of the lock.
RunCheckForDecision ==
    /\ run_pc = "check"
    /\ lock = {}
    /\ \E to_respond \in BOOLEAN :
          /\ CheckForDecisionLocked(to_respond)
          /\ lock' = LockAfterCheck(CandidateUuid, to_respond)
          /\ run_pc' = IF to_respond THEN "respond" ELSE "loop"
    /\ UNCHANGED <<notElectionVars, config, proxy_factory, is_pre_election, vote_counter,
                   voter_state, highest_voter_term, other_voter_uuids, run_i, cb_pc,
                   delivered>>

\* decision_callback_(*result_), outside of the lock.
RunRespond ==
    /\ run_pc = "respond"
    /\ delivered' = Append(delivered, result)
    /\ lock' = lock \ {CandidateUuid}
    /\ run_pc' = "loop"
    /\ UNCHANGED <<notElectionVars, config, proxy_factory, is_pre_election, vote_counter,
                   voter_state, result, has_responded, highest_voter_term,
                   other_voter_uuids, run_i, cb_pc>>

\* A loop body that skips a voter without a proxy and records nothing.
RunProxyFailedNoRecord ==
    /\ run_pc = "loop"
    /\ run_i <= Len(other_voter_uuids)
    /\ lock = {}
    /\ ~voter_state[other_voter_uuids[run_i]].proxy_ok
    /\ run_i' = run_i + 1
    /\ run_pc' = "check"
    /\ UNCHANGED <<notElectionVars, config, proxy_factory, is_pre_election, vote_counter,
                   voter_state, result, has_responded, highest_voter_term,
                   other_voter_uuids, cb_pc, delivered, lock>>

\* The loop body for a voter whose proxy could not be built.
RunProxyFailed ==
    /\ run_pc = "loop"
    /\ run_i <= Len(other_voter_uuids)
    /\ lock = {}
    /\ LET voter_uuid == other_voter_uuids[run_i] IN
       /\ ~voter_state[voter_uuid].proxy_ok
       /\ vote_counter' = RecordVoteUnlocked(Guarded, voter_uuid, VOTE_DENIED).vote_counter
    /\ run_i' = run_i + 1
    /\ run_pc' = "check"
    /\ UNCHANGED <<notElectionVars, config, proxy_factory, is_pre_election, voter_state, result,
                   has_responded, highest_voter_term, other_voter_uuids, cb_pc,
                   delivered, lock>>

\* A loop body that sends no vote RPC once the election has a result.
RunSendRpcUnlessDecided ==
    /\ run_pc = "loop"
    /\ run_i <= Len(other_voter_uuids)
    /\ lock = {}
    /\ LET voter_uuid == other_voter_uuids[run_i] IN
       /\ voter_state[voter_uuid].proxy_ok
       /\ voter_state' = IF result.set THEN voter_state
                         ELSE [voter_state EXCEPT ![voter_uuid].dest_uuid = voter_uuid]
       /\ cb_pc' = IF result.set THEN cb_pc
                   ELSE [cb_pc EXCEPT ![voter_uuid] = "inflight"]
    /\ run_i' = run_i + 1
    /\ UNCHANGED <<notElectionVars, config, proxy_factory, is_pre_election, vote_counter, result,
                   has_responded, highest_voter_term, run_pc, other_voter_uuids,
                   delivered, lock>>

\* The loop body for a voter with a proxy: RequestConsensusVoteAsync.
RunSendRpc ==
    /\ run_pc = "loop"
    /\ run_i <= Len(other_voter_uuids)
    /\ lock = {}
    /\ LET voter_uuid == other_voter_uuids[run_i] IN
       /\ voter_state[voter_uuid].proxy_ok
       /\ voter_state' = [voter_state EXCEPT ![voter_uuid].dest_uuid = voter_uuid]
       /\ cb_pc' = [cb_pc EXCEPT ![voter_uuid] = "inflight"]
    /\ run_i' = run_i + 1
    /\ UNCHANGED <<notElectionVars, config, proxy_factory, is_pre_election, vote_counter, result,
                   has_responded, highest_voter_term, run_pc, other_voter_uuids,
                   delivered, lock>>

RunReturn ==
    /\ run_pc = "loop"
    /\ run_i > Len(other_voter_uuids)
    /\ run_pc' = "done"
    /\ UNCHANGED <<notElectionVars, config, proxy_factory, is_pre_election, vote_counter,
                   voter_state, result, has_responded, highest_voter_term,
                   other_voter_uuids, run_i, cb_pc, delivered, lock>>

(***************************************************************************)
(* LeaderElection::VoteResponseRpcCallback, on the thread of voter v.      *)
(***************************************************************************)
\* The RPC completes with some response and the callback runs its locked block.
CallbackHandleResponse(v) ==
    /\ cb_pc[v] = "inflight"
    /\ lock = {}
    /\ \E r \in Responses(v, is_pre_election) :
          LET e == HandleResponseLocked(Guarded, v, r) IN
          /\ voter_state' = [voter_state EXCEPT ![v].response = r]
          /\ vote_counter' = e.vote_counter
          /\ highest_voter_term' = e.highest_voter_term
          /\ result' = e.result
    /\ cb_pc' = [cb_pc EXCEPT ![v] = "check"]
    /\ UNCHANGED <<notElectionVars, config, proxy_factory, is_pre_election, has_responded,
                   run_pc, other_voter_uuids, run_i, delivered, lock>>

CallbackCheckForDecision(v) ==
    /\ cb_pc[v] = "check"
    /\ lock = {}
    /\ \E to_respond \in BOOLEAN :
          /\ CheckForDecisionLocked(to_respond)
          /\ lock' = LockAfterCheck(v, to_respond)
          /\ cb_pc' = [cb_pc EXCEPT ![v] = IF to_respond THEN "respond" ELSE "done"]
    /\ UNCHANGED <<notElectionVars, config, proxy_factory, is_pre_election, vote_counter,
                   voter_state, highest_voter_term, run_pc, other_voter_uuids, run_i,
                   delivered>>

CallbackRespond(v) ==
    /\ cb_pc[v] = "respond"
    /\ delivered' = Append(delivered, result)
    /\ lock' = lock \ {v}
    /\ cb_pc' = [cb_pc EXCEPT ![v] = "done"]
    /\ UNCHANGED <<notElectionVars, config, proxy_factory, is_pre_election, vote_counter,
                   voter_state, result, has_responded, highest_voter_term, run_pc,
                   other_voter_uuids, run_i>>

RunStep ==
    \/ RunStart
    \/ RunCheckForDecision
    \/ RunRespond
    \/ RunProxyFailed
    \/ RunSendRpc
    \/ RunReturn

CallbackStep(v) ==
    \/ CallbackHandleResponse(v)
    \/ CallbackCheckForDecision(v)
    \/ CallbackRespond(v)

Next ==
    \/ RunStart
    \/ RunCheckForDecision
    \/ RunRespond
    \/ RunProxyFailed
    \/ RunSendRpc
    \/ RunReturn
    \/ \E v \in OtherPeers : CallbackHandleResponse(v)
    \/ \E v \in OtherPeers : CallbackCheckForDecision(v)
    \/ \E v \in OtherPeers : CallbackRespond(v)

Spec == Init /\ [][Next]_vars

\* Every thread that can take a step eventually takes it: Run returns, and
\* every vote RPC sent completes and has its callback run to the end.
LiveSpec ==
    /\ Init
    /\ [][Next]_vars
    /\ WF_vars(RunStep)
    /\ \A v \in OtherPeers : WF_vars(CallbackStep(v))

(***************************************************************************)
(* Properties of the election.                                             *)
(***************************************************************************)
\* The callback of voter v has run its locked block.
Handled(v) == v \in DOMAIN voter_state /\ cb_pc[v] \in {"check", "respond", "done"}

\* A response that the callback of v counts as an actual vote.
CleanResponse(v, r) == r.rpc_ok /\ ~r.has_error /\ r.responder_uuid = v

\* A clean response that denies the vote with a term above the election's.
HigherTermDenial(v, r) ==
    /\ CleanResponse(v, r)
    /\ ~r.vote_granted
    /\ r.has_responder_term
    /\ r.responder_term > ElectionTerm

\* This step is the locked block of the callback of v.
HandlesResponse(v) == cb_pc[v] = "inflight" /\ cb_pc'[v] = "check"

\* Run and every callback have returned.
AllReturned == run_pc = "done" /\ \A v \in OtherPeers : cb_pc[v] \in {"idle", "done"}

\* C1: whatever the interleaving of Run and the response callbacks, the
\* decision callback of an election is invoked at most once.
C1_CallbackAtMostOnce == Len(delivered) <= 1

\* Two callbacks and Run have all been through CheckForDecision after the
\* result existed, and one callback was made.
C1_Witness ==
    /\ AllReturned
    /\ Cardinality({v \in OtherPeers : cb_pc[v] = "done"}) >= 2
    /\ Len(delivered) = 1

\* C2: when Run starts from a counter holding the self-vote and every vote
\* RPC sent has its callback run, the decision callback is eventually
\* invoked, and has_responded_ is true once Run and all callbacks returned.
C2_CallbackEventuallyInvoked ==
    /\ <>(Len(delivered) >= 1)
    /\ [](AllReturned => has_responded /\ Len(delivered) >= 1)

\* All threads are done, some after a vote RPC, and the callback was made.
C2_Witness ==
    /\ AllReturned
    /\ \E v \in OtherPeers : cb_pc[v] = "done"
    /\ has_responded
    /\ Len(delivered) = 1

\* C3: a clean response that denies with a term above the election's, handled
\* while no result exists, constructs the result DENIED with that term as
\* highest_voter_term, and every result handed to the callback is the
\* result so constructed.
C3_HigherTermCancels ==
    [][/\ \A v \in OtherPeers :
             (/\ HandlesResponse(v)
              /\ HigherTermDenial(v, voter_state'[v].response)
              /\ ~result.set)
             => result' = ElectionResult(VOTE_DENIED,
                                         voter_state'[v].response.responder_term,
                                         MsgHigherTerm(v))
       /\ result.set => result' = result
       /\ delivered' # delivered => result.set /\ delivered' = <<result>>
      ]_vars

\* The callback got a higher-term cancellation while the counter is undecided.
C3_Witness ==
    \E v \in OtherPeers :
        /\ Handled(v)
        /\ HigherTermDenial(v, voter_state[v].response)
        /\ delivered = <<ElectionResult(VOTE_DENIED, voter_state[v].response.responder_term,
                                        MsgHigherTerm(v))>>
        /\ ~IsDecided(vote_counter)

\* C4 as stated: a clean response that denies with a higher term gets the
\* DENIED vote of its voter recorded in the counter.
C4_Original ==
    [][\A v \in OtherPeers :
          (HandlesResponse(v) /\ HigherTermDenial(v, voter_state'[v].response))
          => /\ v \in DOMAIN vote_counter'.votes
             /\ vote_counter'.votes[v] = VOTE_DENIED
             /\ vote_counter'.no_votes = vote_counter.no_votes + 1
      ]_vars

\* C4 amended: a clean response that denies with a higher term leaves the
\* vote counter as it was (no vote of that voter is recorded, no tally
\* grows); only the result is constructed, when there is none.
C4_HigherTermNotRecorded ==
    [][\A v \in OtherPeers :
          (HandlesResponse(v) /\ HigherTermDenial(v, voter_state'[v].response))
          => /\ vote_counter' = vote_counter
             /\ v \notin DOMAIN vote_counter'.votes
             /\ result'.set
      ]_vars

\* A voter denied with a higher term, every thread returned, and the counter
\* holds no vote of that voter.
C4_Witness ==
    \E v \in OtherPeers :
        /\ AllReturned
        /\ Handled(v)
        /\ HigherTermDenial(v, voter_state[v].response)
        /\ v \notin DOMAIN vote_counter.votes
        /\ result.set

\* A config of three voters with a majority of two.
ThreeVoters == vote_counter.num_voters = 3 /\ vote_counter.majority_size = 2

\* Voter b denied with the term right above the election's.
DeniedNextTerm(b) ==
    /\ Handled(b)
    /\ HigherTermDenial(b, voter_state[b].response)
    /\ voter_state[b].response.responder_term = ElectionTerm + 1

\* C5 as stated: with three voters and B denying with A.term+1, the callback
\* gets DENIED with highest_voter_term = A.term+1 whatever C answers and
\* whenever C's answer is processed.
C5_Original ==
    ThreeVoters =>
        \A b \in OtherPeers :
            (DeniedNextTerm(b) /\ delivered # <<>>)
            => /\ delivered[1].decision = VOTE_DENIED
               /\ delivered[1].highest_voter_term = ElectionTerm + 1

\* C5 amended: with three voters and B denying with A.term+1, the callback
\* gets DENIED with highest_voter_term = A.term+1, unless a result already
\* existed when B's response was handled: C's grant was counted and found to
\* be a majority first (the callback gets GRANTED), or C denied with a higher
\* term first (the callback gets DENIED with C's term).
C5_HigherTermUnlessDecided ==
    ThreeVoters =>
        \A b \in OtherPeers :
            (DeniedNextTerm(b) /\ delivered # <<>>)
            => \/ delivered[1] = ElectionResult(VOTE_DENIED, ElectionTerm + 1,
                                                MsgHigherTerm(b))
               \/ \E c \in OtherPeers \ {b} :
                     /\ Handled(c)
                     /\ CleanResponse(c, voter_state[c].response)
                     /\ voter_state[c].response.vote_granted
                     /\ delivered[1].decision = VOTE_GRANTED
                     /\ delivered[1].message = MsgWon
               \/ \E c \in OtherPeers \ {b} :
                     /\ Handled(c)
                     /\ HigherTermDenial(c, voter_state[c].response)
                     /\ delivered[1] =
                           ElectionResult(VOTE_DENIED,
                                          voter_state[c].response.responder_term,
                                          MsgHigherTerm(c))

\* C granted, so that the counter holds a majority of grants, and the
\* callback still got B's cancellation.
C5_Witness ==
    /\ ThreeVoters
    /\ \E b \in OtherPeers :
          /\ DeniedNextTerm(b)
          /\ delivered = <<ElectionResult(VOTE_DENIED, ElectionTerm + 1, MsgHigherTerm(b))>>
          /\ \E c \in OtherPeers \ {b} :
                /\ Handled(c)
                /\ c \in VotersWith(vote_counter, VOTE_GRANTED)
    /\ vote_counter.yes_votes >= vote_counter.majority_size

(***************************************************************************)
(* Properties of the VoteCounter.                                          *)
(***************************************************************************)
\* The tallies as the recorded votes give them.
CountOf(c, vote) == Cardinality(VotersWith(c, vote))

DecidedByVotes(c) ==
    \/ CountOf(c, VOTE_GRANTED) >= c.majority_size
    \/ CountOf(c, VOTE_DENIED) > c.num_voters - c.majority_size

\* C6: after any sequence of RegisterVote calls, IsDecided returns true iff
\* the granted votes reach majority_size or the denied votes exceed
\* num_voters - majority_size.
C6_IsDecidedIff ==
    vc_last.op = "IsDecided" => (vc_last.ret <=> DecidedByVotes(vc))

\* IsDecided returned true on denials alone.
C6_Witness ==
    /\ vc_last.op = "IsDecided"
    /\ vc_last.ret
    /\ vc.yes_votes < vc.majority_size
    /\ vc.no_votes = vc.num_voters - vc.majority_size + 1
    /\ vc.no_votes >= 2

\* C7: after any sequence of RegisterVote calls, GetDecision returns OK with
\* VOTE_GRANTED when the granted votes reach the majority, OK with
\* VOTE_DENIED when the denied votes exceed num_voters - majority_size,
\* IllegalState with no decision written otherwise; it succeeds exactly when
\* IsDecided is true.
C7_GetDecision ==
    vc_last.op = "GetDecision" =>
        /\ CountOf(vc, VOTE_GRANTED) >= vc.majority_size
              => vc_last.status = OK /\ vc_last.decision = VOTE_GRANTED
        /\ CountOf(vc, VOTE_DENIED) > vc.num_voters - vc.majority_size
              => vc_last.status = OK /\ vc_last.decision = VOTE_DENIED
        /\ ~DecidedByVotes(vc)
              => vc_last.status = IllegalState /\ vc_last.decision = Unset
        /\ (vc_last.status = OK) <=> IsDecided(vc)

\* GetDecision refused on a counter one denial short of a decision.
C7_Witness ==
    /\ vc_last.op = "GetDecision"
    /\ vc_last.status = IllegalState
    /\ vc.no_votes = vc.num_voters - vc.majority_size
    /\ vc.no_votes >= 1
    /\ vc.yes_votes = vc.majority_size - 1

\* This step is a RegisterVote call.
RegistersVote == vc_last'.op = "RegisterVote"

\* C8: RegisterVote for a voter recorded with the same vote returns OK with
\* is_duplicate = true and leaves the counter as it was, also when all
\* num_voters votes are in; a first vote that is recorded sets
\* is_duplicate = false.
C8_DuplicateIsNoOp ==
    [][RegistersVote =>
          LET u == vc_last'.voter_uuid IN
          /\ (u \in DOMAIN vc.votes /\ vc.votes[u] = vc_last'.vote)
                => /\ vc_last'.status = OK
                   /\ vc_last'.is_duplicate
                   /\ vc' = vc
          /\ (u \notin DOMAIN vc.votes /\ vc_last'.status = OK)
                => /\ ~vc_last'.is_duplicate
                   /\ u \in DOMAIN vc'.votes
      ]_vars

\* A repeated vote on a counter that holds all its votes was flagged as a
\* duplicate, the caller's flag being false before.
C8_Witness ==
    /\ vc_last.op = "RegisterVote"
    /\ vc_last.status = OK
    /\ vc_last.is_duplicate
    /\ ~vc_last.dup_in
    /\ vc.num_voters >= 2
    /\ AreAllVotesIn(vc)

\* C9: RegisterVote for a voter recorded with the opposite vote returns
\* InvalidArgument and leaves the recorded votes and both tallies unchanged.
C9_FlippedVoteRejected ==
    [][RegistersVote =>
          LET u == vc_last'.voter_uuid IN
          (u \in DOMAIN vc.votes /\ vc.votes[u] # vc_last'.vote)
             => /\ vc_last'.status = InvalidArgument
                /\ vc'.votes = vc.votes
                /\ vc'.yes_votes = vc.yes_votes
                /\ vc'.no_votes = vc.no_votes
                /\ vc_last'.is_duplicate = vc_last'.dup_in
      ]_vars

\* A recorded voter voted the other way and was refused.
C9_Witness ==
    /\ vc_last.op = "RegisterVote"
    /\ vc_last.status = InvalidArgument
    /\ vc_last.voter_uuid \in DOMAIN vc.votes
    /\ vc.votes[vc_last.voter_uuid] # vc_last.vote

\* C10: yes_votes + no_votes is the number of distinct voters recorded and
\* never exceeds num_voters; a vote of a new voter when num_voters votes are
\* counted returns InvalidArgument and changes nothing.
C10_TallyWithinVoters ==
    /\ [](/\ vc.yes_votes + vc.no_votes = Cardinality(DOMAIN vc.votes)
          /\ vc.yes_votes = CountOf(vc, VOTE_GRANTED)
          /\ vc.no_votes = CountOf(vc, VOTE_DENIED)
          /\ vc.yes_votes + vc.no_votes <= vc.num_voters)
    /\ [][RegistersVote =>
             ((vc_last'.voter_uuid \notin DOMAIN vc.votes /\ AreAllVotesIn(vc))
                 => vc_last'.status = InvalidArgument /\ vc' = vc)
         ]_vars

\* A voter beyond num_voters was refused by a full counter.
C10_Witness ==
    /\ vc_last.op = "RegisterVote"
    /\ vc_last.status = InvalidArgument
    /\ vc_last.voter_uuid \notin DOMAIN vc.votes
    /\ AreAllVotesIn(vc)
    /\ vc.num_voters >= 2

(***************************************************************************)
(* Run: the first decision check, failed proxies, non-voters, and the lock *)
(***************************************************************************)
\* The candidate's own vote is a majority of the counter.
SelfVoteDecides ==
    /\ vote_counter.majority_size = 1
    /\ CandidateUuid \in VotersWith(vote_counter, VOTE_GRANTED)

\* Some vote RPC has been sent.
SomeRpcSent == \E v \in OtherPeers : cb_pc[v] # "idle"

\* C11: when the seeded counter is decided as Run starts, Run delivers the
\* GRANTED result before it sends any vote RPC (it has delivered it when it
\* enters the loop), and in a single-voter config no vote RPC is ever sent.
C11_DecidedAtStart ==
    /\ SelfVoteDecides =>
          /\ run_pc \in {"loop", "done"} =>
                delivered = <<ElectionResult(VOTE_GRANTED, 0, MsgWon)>>
          /\ SomeRpcSent => delivered # <<>>
    /\ vote_counter.num_voters = 1 => ~SomeRpcSent

C11_Witness ==
    /\ vote_counter.num_voters = 1
    /\ SelfVoteDecides
    /\ run_pc = "done"
    /\ delivered = <<ElectionResult(VOTE_GRANTED, 0, MsgWon)>>
    /\ \E p \in OtherPeers : config[p] = NON_VOTER

\* Run's loop has gone past voter v.
LoopPassed(v) == \E i \in 1..Len(other_voter_uuids) : i < run_i /\ other_voter_uuids[i] = v

\* Run's loop handles a voter whose proxy could not be built.
SkipsFailedProxy ==
    /\ run_pc = "loop"
    /\ run_i <= Len(other_voter_uuids)
    /\ run_i' = run_i + 1
    /\ ~voter_state[other_voter_uuids[run_i]].proxy_ok

\* C12: a voter whose proxy could not be built is never sent a vote RPC;
\* the loop step that handles it records its DENIED vote (one more no vote,
\* the yes votes as they were) and goes on to CheckForDecision, and the
\* vote stays DENIED.
C12_FailedProxyDenied ==
    /\ [](\A v \in DOMAIN voter_state :
            ~voter_state[v].proxy_ok =>
               /\ cb_pc[v] = "idle"
               /\ LoopPassed(v) =>
                     /\ v \in DOMAIN vote_counter.votes
                     /\ vote_counter.votes[v] = VOTE_DENIED)
    /\ [][SkipsFailedProxy =>
            LET v == other_voter_uuids[run_i] IN
            /\ v \notin DOMAIN vote_counter.votes
            /\ v \in DOMAIN vote_counter'.votes
            /\ vote_counter'.votes[v] = VOTE_DENIED
            /\ vote_counter'.no_votes = vote_counter.no_votes + 1
            /\ vote_counter'.yes_votes = vote_counter.yes_votes
            /\ run_pc' = "check"]_vars

C12_Witness ==
    /\ AllReturned
    /\ \E v, w \in DOMAIN voter_state :
          /\ ~voter_state[v].proxy_ok
          /\ vote_counter.votes[v] = VOTE_DENIED
          /\ cb_pc[v] = "idle"
          /\ cb_pc[w] = "done"
    /\ Len(delivered) = 1

\* C13: a response with an RPC-layer error, a tablet-level error or a
\* responder uuid other than the voter's counts as that voter's DENIED vote
\* whatever its vote_granted and responder_term say: one more no vote, the
\* yes votes, the highest voter term and the result as they were.
C13_ErrorResponseDenied ==
    [][\A v \in OtherPeers :
          HandlesResponse(v) /\ ~CleanResponse(v, voter_state'[v].response) =>
             /\ v \notin DOMAIN vote_counter.votes
             /\ v \in DOMAIN vote_counter'.votes
             /\ vote_counter'.votes[v] = VOTE_DENIED
             /\ vote_counter'.no_votes = vote_counter.no_votes + 1
             /\ vote_counter'.yes_votes = vote_counter.yes_votes
             /\ highest_voter_term' = highest_voter_term
             /\ result' = result]_vars

\* Voter v's response is of the given kind of error and yet says that the
\* vote was granted, or denied at a higher term.
ErrorWithPayload(v, rpc_ok, has_error, uuid_ok) ==
    /\ Handled(v)
    /\ voter_state[v].response.rpc_ok = rpc_ok
    /\ voter_state[v].response.has_error = has_error
    /\ (voter_state[v].response.responder_uuid = v) = uuid_ok
    /\ \/ voter_state[v].response.vote_granted
       \/ /\ voter_state[v].response.has_responder_term
          /\ voter_state[v].response.responder_term > ElectionTerm
    /\ vote_counter.votes[v] = VOTE_DENIED

C13_Witness ==
    /\ \E v \in OtherPeers : ErrorWithPayload(v, FALSE, FALSE, TRUE)
    /\ \E v \in OtherPeers : ErrorWithPayload(v, TRUE, TRUE, TRUE)
       \/ ErrorWithPayload(v, TRUE, FALSE, FALSE)
    /\ highest_voter_term = 0

\* C14: a peer that is not a VOTER is never sent a vote RPC, has no voter
\* state and no vote in the counter; the votes counted are the candidate's
\* and those of the other VOTER peers, which are the ones the loop visits.
C14_OnlyVotersCount ==
    /\ \A p \in OtherPeers :
          config[p] # VOTER =>
             /\ cb_pc[p] = "idle"
             /\ p \notin DOMAIN voter_state
             /\ p \notin DOMAIN vote_counter.votes
    /\ DOMAIN vote_counter.votes
          \subseteq {CandidateUuid} \cup {p \in OtherPeers : config[p] = VOTER}
    /\ run_pc # "start" =>
          /\ DOMAIN voter_state = {p \in OtherPeers : config[p] = VOTER}
          /\ \A i \in 1..Len(other_voter_uuids) : config[other_voter_uuids[i]] = VOTER

C14_Witness ==
    /\ AllReturned
    /\ \E p, v \in OtherPeers :
          /\ config[p] = NON_VOTER
          /\ config[v] = VOTER
          /\ cb_pc[v] = "done"
          /\ DOMAIN vote_counter.votes = {CandidateUuid, v}
          /\ DOMAIN voter_state = {v}

\* Some thread is about to run, or has just been handed, the decision
\* callback.
AtCallback(self) ==
    IF self = CandidateUuid THEN run_pc = "respond" ELSE cb_pc[self] = "respond"

Registry == [anchors_ |-> anchors_, anchor |-> anchor]

\* std::multimap::insert: after the entries whose key is not greater.
MultiMapInsert(m, entry) ==
    LET n == Cardinality({i \in 1..Len(m) : m[i].first <= entry.first}) IN
    SubSeq(m, 1, n) \o <<entry>> \o SubSeq(m, n + 1, Len(m))

\* std::multimap::find: the position of the first entry with the key (what
\* libstdc++ and libc++ return), or one past the end.
MultiMapFind(m, key) ==
    LET hits == {i \in 1..Len(m) : m[i].first = key} IN
    IF hits = {} THEN Len(m) + 1 ELSE CHOOSE i \in hits : \A j \in hits : i <= j

\* std::multimap::erase(iterator)
MultiMapErase(m, i) == SubSeq(m, 1, i - 1) \o SubSeq(m, i + 1, Len(m))

\* LogAnchorRegistry::RegisterUnlocked
RegisterUnlocked(r, log_index, owner, a) ==
    [anchors_ |-> MultiMapInsert(r.anchors_, [first |-> log_index, second |-> a]),
     anchor |-> [r.anchor EXCEPT ![a] = [is_registered |-> TRUE,
                                         log_index |-> log_index,
                                         owner |-> owner]]]

\* An UnregisterUnlocked that erases the first entry of the anchor's index
\* without looking at whose entry it is.
UnregisterUnlockedFirstOfIndex(r, a) ==
    LET iter == MultiMapFind(r.anchors_, r.anchor[a].log_index) IN
    IF iter > Len(r.anchors_)
    THEN [reg |-> r, status |-> NotFound]
    ELSE [reg |-> [anchors_ |-> MultiMapErase(r.anchors_, iter),
                   anchor |-> [r.anchor EXCEPT ![a].is_registered = FALSE]],
          status |-> OK]

\* LogAnchorRegistry::UnregisterUnlocked, with DCHECK(anchor->is_registered)
\* compiled out: the scan runs from the first entry of the anchor's index to
\* the end of the map and stops at the anchor's entry.
UnregisterUnlocked(r, a) ==
    LET start == MultiMapFind(r.anchors_, r.anchor[a].log_index)
        hits == {i \in start..Len(r.anchors_) : r.anchors_[i].second = a}
    IN IF hits = {}
       THEN [reg |-> r, status |-> NotFound]
       ELSE LET iter == CHOOSE i \in hits : \A j \in hits : i <= j IN
            [reg |-> [anchors_ |-> MultiMapErase(r.anchors_, iter),
                      anchor |-> [r.anchor EXCEPT ![a].is_registered = FALSE]],
             status |-> OK]

\* LogAnchorRegistry::Register
Register(r, log_index, owner, a) == RegisterUnlocked(r, log_index, owner, a)

\* A RegisterOrUpdate that registers without unregistering first.
RegisterOrUpdateNoUnregister(r, log_index, owner, a) ==
    [reg |-> RegisterUnlocked(r, log_index, owner, a), status |-> OK]

\* LogAnchorRegistry::RegisterOrUpdate
RegisterOrUpdate(r, log_index, owner, a) ==
    IF r.anchor[a].is_registered
    THEN LET u == UnregisterUnlocked(r, a) IN
         IF u.status # OK
         THEN u
         ELSE [reg |-> RegisterUnlocked(u.reg, log_index, owner, a), status |-> OK]
    ELSE [reg |-> RegisterUnlocked(r, log_index, owner, a), status |-> OK]

\* An Unregister that answers OK for an anchor that is not registered.
UnregisterOkIfAbsent(r, a) ==
    IF ~r.anchor[a].is_registered
    THEN [reg |-> r, status |-> OK]
    ELSE UnregisterUnlocked(r, a)

\* LogAnchorRegistry::Unregister
Unregister(r, a) == UnregisterUnlocked(r, a)

\* An UnregisterIfAnchored without the is_registered test.
UnregisterIfAnchoredNoTest(r, a) == UnregisterUnlocked(r, a)

\* LogAnchorRegistry::UnregisterIfAnchored
UnregisterIfAnchored(r, a) ==
    IF ~r.anchor[a].is_registered
    THEN [reg |-> r, status |-> OK]
    ELSE UnregisterUnlocked(r, a)

\* A GetEarliestRegisteredLogIndex that reads the last entry of the map.
GetEarliestFromBack(r, log_index) ==
    IF Len(r.anchors_) = 0
    THEN [status |-> NotFound, log_index |-> log_index]
    ELSE [status |-> OK, log_index |-> r.anchors_[Len(r.anchors_)].first]

\* LogAnchorRegistry::GetEarliestRegisteredLogIndex; log_index is the
\* caller's variable, written only on the OK path.
GetEarliestRegisteredLogIndex(r, log_index) ==
    IF Len(r.anchors_) = 0
    THEN [status |-> NotFound, log_index |-> log_index]
    ELSE [status |-> OK, log_index |-> r.anchors_[1].first]

(***************************************************************************)
(* The registry under arbitrary calls of its callers' threads.             *)
(***************************************************************************)
InitRegistry ==
    /\ StoresIdle
    /\ VCIdle
    /\ ElectionIdle

\* Register is called on anchors that are not registered: RegisterUnlocked
\* DCHECKs it, and a caller that cannot know calls RegisterOrUpdate.
RegistryRegister ==
    /\ \E a \in Anchors, log_index \in LogIndexes :
          /\ ~anchor[a].is_registered
          /\ LET r == Register(Registry, log_index, Owner, a) IN
             /\ anchors_' = r.anchors_
             /\ anchor' = r.anchor
          /\ registry_last' = [NoRegistryCall EXCEPT !.op = "Register", !.anchor = a,
                                                     !.log_index = log_index,
                                                     !.was_registered =
                                                        anchor[a].is_registered,
                                                     !.before = anchors_]
    /\ UNCHANGED notRegistryVars

RegistryRegisterOrUpdate ==
    /\ \E a \in Anchors, log_index \in LogIndexes :
          LET r == RegisterOrUpdate(Registry, log_index, Owner, a) IN
          /\ anchors_' = r.reg.anchors_
          /\ anchor' = r.reg.anchor
          /\ registry_last' = [NoRegistryCall EXCEPT !.op = "RegisterOrUpdate",
                                                     !.anchor = a,
                                                     !.log_index = log_index,
                                                     !.was_registered =
                                                        anchor[a].is_registered,
                                                     !.status = r.status]
    /\ UNCHANGED notRegistryVars

RegistryUnregister ==
    /\ \E a \in Anchors :
          LET r == Unregister(Registry, a) IN
          /\ anchors_' = r.reg.anchors_
          /\ anchor' = r.reg.anchor
          /\ registry_last' = [NoRegistryCall EXCEPT !.op = "Unregister", !.anchor = a,
                                                     !.was_registered =
                                                        anchor[a].is_registered,
                                                     !.status = r.status]
    /\ UNCHANGED notRegistryVars

RegistryUnregisterIfAnchored ==
    /\ \E a \in Anchors :
          LET r == UnregisterIfAnchored(Registry, a) IN
          /\ anchors_' = r.reg.anchors_
          /\ anchor' = r.reg.anchor
          /\ registry_last' = [NoRegistryCall EXCEPT !.op = "UnregisterIfAnchored",
                                                     !.anchor = a,
                                                     !.was_registered =
                                                        anchor[a].is_registered,
                                                     !.status = r.status]
    /\ UNCHANGED notRegistryVars

RegistryGetEarliest ==
    /\ LET r == GetEarliestRegisteredLogIndex(Registry, kInvalidOpIdIndex) IN
       registry_last' = [NoRegistryCall EXCEPT !.op = "GetEarliestRegisteredLogIndex",
                                              !.status = r.status,
                                              !.earliest = r.log_index]
    /\ UNCHANGED <<anchors_, anchor, notRegistryVars>>

NextRegistry ==
    \/ RegistryRegister
    \/ RegistryRegisterOrUpdate
    \/ RegistryUnregister
    \/ RegistryUnregisterIfAnchored
    \/ RegistryGetEarliest

SpecRegistry == InitRegistry /\ [][NextRegistry]_vars

(***************************************************************************)
(* The registry's claims.                                                  *)
(***************************************************************************)
RegisteredAnchors == {a \in Anchors : anchor[a].is_registered}

\* The positions of anchor a's entries in the multimap m.
EntriesOf(m, a) == {i \in 1..Len(m) : m[i].second = a}

\* The multimap m without the entries of anchor a.
WithoutAnchor(m, a) == SelectSeq(m, LAMBDA e : e.second # a)

\* The step is a call of the method op on anchor a.
Calls(op, a) == registry_last'.op = op /\ registry_last'.anchor = a

\* C16: GetEarliestRegisteredLogIndex returns NotFound, and leaves the
\* caller's variable alone, exactly when no anchor is registered; otherwise
\* it returns OK with the smallest log_index among the registered anchors.
C16_EarliestIsMinimum ==
    registry_last.op = "GetEarliestRegisteredLogIndex" =>
       IF RegisteredAnchors = {}
       THEN /\ registry_last.status = NotFound
            /\ registry_last.earliest = kInvalidOpIdIndex
       ELSE /\ registry_last.status = OK
            /\ \E a \in RegisteredAnchors : registry_last.earliest = anchor[a].log_index
            /\ \A a \in RegisteredAnchors : registry_last.earliest <= anchor[a].log_index

C16_Witness ==
    /\ registry_last.op = "GetEarliestRegisteredLogIndex"
    /\ registry_last.status = OK
    /\ registry_last.earliest = 2
    /\ \E a, b, c \in Anchors :
          /\ ~anchor[a].is_registered /\ anchor[a].log_index = 1
          /\ anchor[b].is_registered /\ anchor[b].log_index = 2
          /\ anchor[c].is_registered /\ anchor[c].log_index = 3
          /\ anchors_ = <<[first |-> 2, second |-> b], [first |-> 3, second |-> c]>>

\* C17: an Unregister(a) that follows Register(i, o, a) returns OK, leaves
\* the registry with the entries it had before the Register, leaves a
\* unregistered and leaves the other anchors as they were.
C17_RegisterThenUnregister ==
    [][\A a \in Anchors :
          /\ registry_last.op = "Register"
          /\ registry_last.anchor = a
          /\ Calls("Unregister", a)
          => /\ anchor[a].is_registered
             /\ registry_last'.status = OK
             /\ anchors_' = registry_last.before
             /\ ~anchor'[a].is_registered
             /\ \A b \in Anchors \ {a} : anchor'[b] = anchor[b]]_vars

C17_Witness ==
    /\ registry_last.op = "Unregister"
    /\ registry_last.status = OK
    /\ registry_last.was_registered
    /\ \E a, b, c \in Anchors :
          /\ registry_last.anchor = a
          /\ ~anchor[a].is_registered
          /\ anchor[a].log_index = 2
          /\ anchors_ = <<[first |-> 2, second |-> b], [first |-> 2, second |-> c]>>

\* C18: in every state an anchor has one entry in the map if it is
\* registered and none if it is not, so no reader of the registry sees a
\* registered anchor absent. RegisterOrUpdate(i, o, a) returns OK and is one
\* step: after it a is registered with exactly one entry, at i, and the
\* entries of the other anchors are as they were; on a registered anchor the
\* entry was there before the step too, and on an unregistered one the step
\* is that of Register.
C18_RegisterOrUpdateMoves ==
    /\ [](\A a \in Anchors :
            /\ Cardinality(EntriesOf(anchors_, a)) = IF anchor[a].is_registered THEN 1 ELSE 0
            /\ \A i \in EntriesOf(anchors_, a) : anchors_[i].first = anchor[a].log_index)
    /\ [][\A a \in Anchors :
            Calls("RegisterOrUpdate", a) =>
               /\ registry_last'.status = OK
               /\ anchor'[a] = [is_registered |-> TRUE,
                                log_index |-> registry_last'.log_index,
                                owner |-> Owner]
               /\ Cardinality(EntriesOf(anchors_', a)) = 1
               /\ \A i \in EntriesOf(anchors_', a) :
                     anchors_'[i].first = registry_last'.log_index
               /\ WithoutAnchor(anchors_', a) = WithoutAnchor(anchors_, a)
               /\ \A b \in Anchors \ {a} : anchor'[b] = anchor[b]
               /\ IF anchor[a].is_registered
                  THEN Cardinality(EntriesOf(anchors_, a)) = 1
                  ELSE LET r == Register(Registry, registry_last'.log_index, Owner, a) IN
                       anchors_' = r.anchors_ /\ anchor' = r.anchor]_vars

C18_Witness ==
    /\ registry_last.op = "RegisterOrUpdate"
    /\ registry_last.was_registered
    /\ registry_last.log_index = 1
    /\ \E a, b \in Anchors :
          /\ registry_last.anchor = a
          /\ anchors_ = <<[first |-> 1, second |-> a], [first |-> 2, second |-> b]>>

C20_UnregisterIfAnchoredIdempotent ==
    [][\A a \in Anchors :
          Calls("UnregisterIfAnchored", a) =>
             /\ registry_last'.status = OK
             /\ ~anchor'[a].is_registered
             /\ EntriesOf(anchors_', a) = {}
             /\ WithoutAnchor(anchors_', a) = WithoutAnchor(anchors_, a)
             /\ ~anchor[a].is_registered => anchors_' = anchors_ /\ anchor' = anchor
             /\ LET once == [anchors_ |-> anchors_', anchor |-> anchor']
                    twice == UnregisterIfAnchored(once, a)
                IN twice.status = OK /\ twice.reg = once]_vars

C20_Witness ==
    /\ registry_last.op = "UnregisterIfAnchored"
    /\ ~registry_last.was_registered
    /\ registry_last.status = OK
    /\ \E a, b \in Anchors :
          /\ registry_last.anchor = a
          /\ anchor[a].log_index \in LogIndexes
          /\ ~anchor[a].is_registered
          /\ anchor[b].is_registered

(***************************************************************************)
(* MinLogIndexAnchorer. An anchorer value s has the fields                 *)
(* minimum_log_index_ and reg, the registry it anchors in; every method    *)
(* holds the anchorer's lock_ from its first line to its return, the call  *)
(* into the registry included, and is one step.                            *)
(***************************************************************************)
Anchorer == [minimum_log_index_ |-> minimum_log_index_, reg |-> Registry]

\* An AnchorIfMinimum that anchors at every index it is passed.
AnchorAlways(s, log_index) ==
    LET r == RegisterOrUpdate(s.reg, log_index, Owner, AnchorerAnchor) IN
    [minimum_log_index_ |-> log_index, reg |-> r.reg, status |-> r.status]

\* An AnchorIfMinimum that anchors only when no anchor is held.
AnchorIfFirst(s, log_index) ==
    IF s.minimum_log_index_ = kInvalidOpIdIndex
    THEN LET r == RegisterOrUpdate(s.reg, log_index, Owner, AnchorerAnchor) IN
         [minimum_log_index_ |-> log_index, reg |-> r.reg, status |-> r.status]
    ELSE [minimum_log_index_ |-> s.minimum_log_index_, reg |-> s.reg, status |-> OK]

\* MinLogIndexAnchorer::AnchorIfMinimum
AnchorIfMinimum(s, log_index) ==
    IF log_index < s.minimum_log_index_ \/ s.minimum_log_index_ = kInvalidOpIdIndex
    THEN LET r == RegisterOrUpdate(s.reg, log_index, Owner, AnchorerAnchor) IN
         [minimum_log_index_ |-> log_index, reg |-> r.reg, status |-> r.status]
    ELSE [minimum_log_index_ |-> s.minimum_log_index_, reg |-> s.reg, status |-> OK]

\* MinLogIndexAnchorer::ReleaseAnchor
ReleaseAnchor(s) ==
    IF s.minimum_log_index_ # kInvalidOpIdIndex
    THEN LET r == Unregister(s.reg, AnchorerAnchor) IN
         [minimum_log_index_ |-> s.minimum_log_index_, reg |-> r.reg, status |-> r.status]
    ELSE [minimum_log_index_ |-> s.minimum_log_index_, reg |-> s.reg, status |-> OK]

\* MinLogIndexAnchorer::minimum_log_index
minimum_log_index(s) == s.minimum_log_index_

(***************************************************************************)
(* One anchorer under arbitrary calls, next to other users of the registry.*)
(***************************************************************************)
InitAnchorer ==
    /\ StoresIdle
    /\ VCIdle
    /\ ElectionIdle

AnchorerAnchorIfMinimum ==
    /\ anchorer_state = "live"
    /\ \E log_index \in LogIndexes :
          LET r == AnchorIfMinimum(Anchorer, log_index) IN
          /\ minimum_log_index_' = r.minimum_log_index_
          /\ anchors_' = r.reg.anchors_
          /\ anchor' = r.reg.anchor
          /\ anchorer_last' = [NoAnchorerCall EXCEPT !.op = "AnchorIfMinimum",
                                                     !.log_index = log_index,
                                                     !.status = r.status,
                                                     !.tick = ~anchorer_last.tick]
          /\ anchorer_calls' = [anchorer_calls EXCEPT !.passed = @ \cup {log_index}]
    /\ UNCHANGED <<anchorer_state, registry_last, notAnchorerVars>>

AnchorerReleaseAnchor ==
    /\ anchorer_state = "live"
    /\ LET r == ReleaseAnchor(Anchorer) IN
       /\ minimum_log_index_' = r.minimum_log_index_
       /\ anchors_' = r.reg.anchors_
       /\ anchor' = r.reg.anchor
       /\ anchorer_last' = [NoAnchorerCall EXCEPT !.op = "ReleaseAnchor",
                                                  !.status = r.status,
                                                  !.tick = ~anchorer_last.tick]
    /\ anchorer_calls' = [anchorer_calls EXCEPT !.released = TRUE]
    /\ UNCHANGED <<anchorer_state, registry_last, notAnchorerVars>>

AnchorerMinimumLogIndex ==
    /\ anchorer_state = "live"
    /\ anchorer_last' = [NoAnchorerCall EXCEPT !.op = "minimum_log_index",
                                               !.minimum = minimum_log_index(Anchorer),
                                               !.tick = ~anchorer_last.tick]
    /\ UNCHANGED <<minimum_log_index_, anchorer_state, anchorer_calls, registryVars,
                   notAnchorerVars>>

\* MinLogIndexAnchorer::~MinLogIndexAnchorer: CHECK_OK(ReleaseAnchor()).
AnchorerDestroy ==
    /\ anchorer_state = "live"
    /\ LET r == ReleaseAnchor(Anchorer) IN
       /\ minimum_log_index_' = r.minimum_log_index_
       /\ anchors_' = r.reg.anchors_
       /\ anchor' = r.reg.anchor
       /\ anchorer_last' = [NoAnchorerCall EXCEPT !.op = "~MinLogIndexAnchorer",
                                                  !.status = r.status,
                                                  !.tick = ~anchorer_last.tick]
       /\ anchorer_state' = IF r.status = OK THEN "destroyed" ELSE "aborted"
    /\ anchorer_calls' = [anchorer_calls EXCEPT !.released = TRUE]
    /\ UNCHANGED <<registry_last, notAnchorerVars>>

\* Another holder of an anchor moves or drops its own anchor (registry_last
\* follows the calls of SpecRegistry only).
OtherRegisterOrUpdate ==
    /\ anchorer_state # "aborted"
    /\ \E a \in 1..NumOtherHolders, log_index \in LogIndexes :
          LET r == RegisterOrUpdate(Registry, log_index, Owner, a) IN
          /\ anchors_' = r.reg.anchors_
          /\ anchor' = r.reg.anchor
    /\ UNCHANGED <<registry_last, anchorerVars, notAnchorerVars>>

OtherUnregisterIfAnchored ==
    /\ anchorer_state # "aborted"
    /\ \E a \in 1..NumOtherHolders :
          LET r == UnregisterIfAnchored(Registry, a) IN
          /\ anchors_' = r.reg.anchors_
          /\ anchor' = r.reg.anchor
    /\ UNCHANGED <<registry_last, anchorerVars, notAnchorerVars>>

NextAnchorer ==
    \/ AnchorerAnchorIfMinimum
    \/ AnchorerReleaseAnchor
    \/ AnchorerMinimumLogIndex
    \/ AnchorerDestroy
    \/ OtherRegisterOrUpdate
    \/ OtherUnregisterIfAnchored

SpecAnchorer == InitAnchorer /\ [][NextAnchorer]_vars

(***************************************************************************)
(* The anchorer's claims.                                                  *)
(***************************************************************************)
\* The smallest element of a non-empty set of integers.
MinOf(S) == CHOOSE x \in S : \A y \in S : x <= y

\* The step is a call of the anchorer's method op.
AnchorerCalls(op) == anchorer_last'.tick # anchorer_last.tick /\ anchorer_last'.op = op

\* The anchorer's anchor has one entry in the registry, at log_index.
AnchoredAt(log_index) ==
    /\ anchor[AnchorerAnchor].is_registered
    /\ anchor[AnchorerAnchor].log_index = log_index
    /\ Cardinality(EntriesOf(anchors_, AnchorerAnchor)) = 1
    /\ \A i \in EntriesOf(anchors_, AnchorerAnchor) : anchors_[i].first = log_index

\* C21: AnchorIfMinimum returns OK and changes the minimum or the anchor
\* only when no anchor is held or the index passed is smaller than the
\* minimum; and as long as ReleaseAnchor has not been called the minimum is
\* the smallest index passed so far (kInvalidOpIdIndex, with nothing
\* registered, when none was), the anchor is registered at exactly that
\* index, and minimum_log_index() returns it.
C21_AnchorIsMinimum ==
    /\ [](~anchorer_calls.released =>
            /\ IF anchorer_calls.passed = {}
               THEN /\ minimum_log_index_ = kInvalidOpIdIndex
                    /\ ~anchor[AnchorerAnchor].is_registered
                    /\ EntriesOf(anchors_, AnchorerAnchor) = {}
               ELSE /\ minimum_log_index_ = MinOf(anchorer_calls.passed)
                    /\ AnchoredAt(MinOf(anchorer_calls.passed))
            /\ anchorer_last.op = "minimum_log_index" =>
                  anchorer_last.minimum = minimum_log_index_)
    /\ [][AnchorerCalls("AnchorIfMinimum") =>
            /\ anchorer_last'.status = OK
            /\ \/ anchor'[AnchorerAnchor] # anchor[AnchorerAnchor]
               \/ anchors_' # anchors_
               \/ minimum_log_index_' # minimum_log_index_
               => \/ ~anchor[AnchorerAnchor].is_registered
                  \/ anchorer_last'.log_index < minimum_log_index_]_vars

C21_Witness ==
    /\ ~anchorer_calls.released
    /\ anchorer_calls.passed = LogIndexes
    /\ anchorer_last.op = "minimum_log_index"
    /\ anchorer_last.minimum = 1
    /\ AnchoredAt(1)
    /\ \E a \in Anchors \ {AnchorerAnchor} : anchor[a].is_registered /\ anchor[a].log_index = 1

\* The step is a ReleaseAnchor, called or made by the destructor.
Releases == AnchorerCalls("ReleaseAnchor") \/ AnchorerCalls("~MinLogIndexAnchorer")

\* C22, as stated: ReleaseAnchor returns OK when no anchor was ever taken,
\* and, called again (or by the destructor) after a release that returned
\* OK, it returns OK again and leaves the registry as it was.
C22_Original ==
    [][Releases =>
          /\ anchorer_calls.passed = {} => anchorer_last'.status = OK
          /\ anchorer_last.op = "ReleaseAnchor" /\ anchorer_last.status = OK =>
                /\ anchorer_last'.status = OK
                /\ anchors_' = anchors_
                /\ anchor' = anchor]_vars

(***************************************************************************)
(* DeltaMemStore. Update is taken from the design's description of it: it  *)
(* works on the tree, on highest_timestamp_ under ts_lock_, on the         *)
(* anchorer and on two atomic counters, each synchronized by itself, so    *)
(* each of these is a step of its own.                                     *)
(***************************************************************************)
NullOpt == [has_value |-> FALSE]
MakeOptional(v) == [has_value |-> TRUE, value |-> v]

\* The deltas of the tree with the given row index and timestamp.
DeltasAt(row_idx, timestamp) ==
    {d \in tree_ : d.row_idx = row_idx /\ d.timestamp = timestamp}

\* The tree holds the key.
KeyExists(row_idx, timestamp, disambiguator) ==
    \E d \in DeltasAt(row_idx, timestamp) : d.disambiguator = disambiguator

\* The delta that an Update u is inserting.
DeltaOf(u) ==
    [row_idx |-> u.row_idx, timestamp |-> u.timestamp,
     disambiguator |-> u.disambiguator, op_index |-> u.op_index]

\* The deltas whose Update is still running, and those whose Update is over.
InFlight ==
    {d \in tree_ : \E t \in Updaters :
        /\ upd[t].pc \in {"ts", "anchor"}
        /\ DeltaOf(upd[t]) = d}
Finished == tree_ \ InFlight

\* The largest disambiguator among the finished updates of the row and
\* timestamp, -1 if there is none.
FloorAt(row_idx, timestamp) ==
    LET S == {d.disambiguator : d \in Finished \cap DeltasAt(row_idx, timestamp)} IN
    IF S = {} THEN -1 ELSE CHOOSE x \in S : \A y \in S : x >= y

\* DeltaMemStore::Count
Count == Cardinality(tree_)

\* DeltaMemStore::MinLogIndex
MinLogIndex == minimum_log_index(Anchorer)

\* DeltaMemStore::highest_timestamp
highest_timestamp ==
    IF highest_timestamp_ = kMin THEN NullOpt ELSE MakeOptional(highest_timestamp_)

\* An insert that, on a collision, overwrites the delta that holds the key.
InsertOverwriting(u) ==
    [tree_ |-> (tree_ \ {d \in DeltasAt(u.row_idx, u.timestamp) :
                            d.disambiguator = u.disambiguator}) \cup {DeltaOf(u)},
     pc |-> "ts"]

\* The insert into the tree of the delta of an Update u: it fails when the
\* key is there already.
Insert(u) ==
    IF KeyExists(u.row_idx, u.timestamp, u.disambiguator)
    THEN [tree_ |-> tree_, pc |-> "retry"]
    ELSE [tree_ |-> tree_ \cup {DeltaOf(u)}, pc |-> "ts"]

\* The Update u after its insert: floor is of use up to the insert only.
AfterInsert(u, pc) ==
    [u EXCEPT !.pc = pc, !.floor = IF pc = "ts" THEN -1 ELSE @]

\* Update is called and tries its insert; the key is (row_idx, timestamp)
\* with no sequence number.
DMSUpdateBegin(t) ==
    /\ upd[t].pc = "idle"
    /\ \E timestamp \in Timestamps, row_idx \in RowIds, op_index \in OpIndexes :
          LET u == [pc |-> "insert", timestamp |-> timestamp, row_idx |-> row_idx,
                    op_index |-> op_index, disambiguator |-> 0,
                    floor |-> FloorAt(row_idx, timestamp)]
              r == Insert(u)
          IN /\ tree_' = r.tree_
             /\ upd' = [upd EXCEPT ![t] = AfterInsert(u, r.pc)]
    /\ UNCHANGED <<highest_timestamp_, disambiguator_sequence_number_, updates_ok,
                   registryVars, anchorerVars, notDMSVars>>

\* After a collision: the next value of disambiguator_sequence_number_ is
\* appended to the key.
DMSUpdateRetry(t) ==
    /\ upd[t].pc = "retry"
    /\ disambiguator_sequence_number_' = disambiguator_sequence_number_ + 1
    /\ upd' = [upd EXCEPT ![t].pc = "insert",
                          ![t].disambiguator = disambiguator_sequence_number_ + 1]
    /\ UNCHANGED <<tree_, highest_timestamp_, updates_ok, registryVars, anchorerVars,
                   notDMSVars>>

\* The insert is tried again with the longer key.
DMSUpdateInsert(t) ==
    /\ upd[t].pc = "insert"
    /\ LET r == Insert(upd[t]) IN
       /\ tree_' = r.tree_
       /\ upd' = [upd EXCEPT ![t] = AfterInsert(upd[t], r.pc)]
    /\ UNCHANGED <<highest_timestamp_, disambiguator_sequence_number_, updates_ok,
                   registryVars, anchorerVars, notDMSVars>>

\* highest_timestamp_ = max(highest_timestamp_, timestamp), under ts_lock_.
DMSUpdateTimestamp(t) ==
    /\ upd[t].pc = "ts"
    /\ highest_timestamp_' = Max(highest_timestamp_, upd[t].timestamp)
    /\ upd' = [upd EXCEPT ![t].pc = "anchor"]
    /\ UNCHANGED <<tree_, disambiguator_sequence_number_, updates_ok, registryVars,
                   anchorerVars, notDMSVars>>

\* anchorer_.AnchorIfMinimum(op_id.index()), and Update returns OK;
\* anchorer_last and anchorer_calls follow the calls of SpecAnchorer only.
\* (deleted_row_count_, which Update increments last for a change list that
\* is a delete, is read by nothing here and is left out.)
DMSUpdateAnchor(t) ==
    /\ upd[t].pc = "anchor"
    /\ LET r == AnchorIfMinimum(Anchorer, upd[t].op_index) IN
       /\ minimum_log_index_' = r.minimum_log_index_
       /\ anchors_' = r.reg.anchors_
       /\ anchor' = r.reg.anchor
    /\ updates_ok' = updates_ok + 1
    /\ upd' = [upd EXCEPT ![t] = [NoUpdate EXCEPT !.pc = "done"]]
    /\ UNCHANGED <<tree_, highest_timestamp_, disambiguator_sequence_number_,
                   anchorer_state, anchorer_last, anchorer_calls, registry_last,
                   notDMSVars>>

InitDMS ==
    /\ StoresIdle
    /\ VCIdle
    /\ ElectionIdle

NextDMS ==
    \E t \in Updaters :
       \/ DMSUpdateBegin(t)
       \/ DMSUpdateRetry(t)
       \/ DMSUpdateInsert(t)
       \/ DMSUpdateTimestamp(t)
       \/ DMSUpdateAnchor(t)

SpecDMS == InitDMS /\ [][NextDMS]_vars

(***************************************************************************)
(* Claims on the DeltaMemStore.                                            *)
(***************************************************************************)

Inserted == {t \in Updaters : upd[t].pc \in {"ts", "anchor"}}

\* The step inserts the delta of updater t in the tree.
Inserts(t) == upd[t].pc \in {"idle", "insert"} /\ upd'[t].pc = "ts"

\* C24: no Update is lost to a key collision. The deltas of the tree have
\* pairwise distinct keys (row_idx, timestamp, disambiguator); every Update,
\* alone or concurrent with others, adds one delta under a key that was not in
\* the tree, and this key sorts after the key of every Update of the same row
\* and timestamp that had returned when this one was called; and Count() is
\* the number of Updates that returned OK plus those that have inserted and
\* not returned yet.
C24_NoUpdateLost ==
    /\ [](/\ \A d, e \in tree_ :
               (d.row_idx = e.row_idx /\ d.timestamp = e.timestamp
                   /\ d.disambiguator = e.disambiguator) => d = e
          /\ Count = updates_ok + Cardinality(Inserted))
    /\ [][\A t \in Updaters : Inserts(t) =>
            LET d == DeltaOf(upd'[t])
                floor == IF upd[t].pc = "idle"
                         THEN FloorAt(d.row_idx, d.timestamp) ELSE upd[t].floor
            IN /\ ~KeyExists(d.row_idx, d.timestamp, d.disambiguator)
               /\ tree_' = tree_ \cup {d}
               /\ d.disambiguator > floor]_vars

\* Two Updates of one row at one timestamp have returned: their deltas are
\* under the disambiguators 0 and 1.
C24_Witness ==
    /\ updates_ok = 2
    /\ Count = 2
    /\ \E d, e \in Finished :
          /\ d.row_idx = e.row_idx /\ d.timestamp = e.timestamp
          /\ d.disambiguator = 0 /\ e.disambiguator = 1

\* The highest timestamp of a non-empty set of deltas.
MaxTimestampOf(S) ==
    LET T == {d.timestamp : d \in S} IN CHOOSE x \in T : \A y \in T : x >= y

ChildError(c) == "IOError: " \o ToString(c)

\* What the children return when those of the set failing fail.
ResultsOf(failing) == [c \in Stores |-> IF c \in failing THEN ChildError(c) ELSE OK]

\* The children of a vector of iterators.
Children(iters) == {iters[i] : i \in 1..Len(iters)}

\* for (iter : iters_) { RETURN_NOT_OK(iter->Op(...)); } return OK, from the
\* i-th child on.
RECURSIVE ForEachChildFrom(_, _, _)
ForEachChildFrom(iters, i, results) ==
    IF i > Len(iters)
    THEN [status |-> OK, invoked |-> iters]
    ELSE IF results[iters[i]] # OK
         THEN [status |-> results[iters[i]], invoked |-> SubSeq(iters, 1, i)]
         ELSE ForEachChildFrom(iters, i + 1, results)

\* A loop that goes on after a child has failed.
ContinueAfterFailure(iters, results) ==
    [status |-> ForEachChildFrom(iters, 1, results).status, invoked |-> iters]

\* DeltaIteratorMerger::Init, SeekToOrdinal, ApplyUpdates, ApplyDeletes,
\* SelectDeltas, CollectMutations: the same loop over iters_.
ForEachChild(iters, results) == ForEachChildFrom(iters, 1, results)

\* The iterator of the first store is the DMSIterator of the rowset's
\* DeltaMemStore; the iterators of the other stores read delta files.
IsDMSIterator(c) == c = 1

\* DMSIterator::FreeDeltaBlocks
DMSFreeDeltaBlocks == "NotSupported: No delta blocks queue is maintained for DMS."

\* What FreeDeltaBlocks of the children returns when the delta file
\* iterators of the set failing fail.
FreeResultsOf(failing) ==
    [c \in Stores |-> IF IsDMSIterator(c) THEN DMSFreeDeltaBlocks
                      ELSE IF c \in failing THEN ChildError(c) ELSE OK]

\* A FreeDeltaBlocks that frees the blocks of every child and returns the
\* first status that is not OK.
FreeDeltaBlocksOfAll(iters, results) ==
    [status |-> ForEachChildFrom(iters, 1, results).status, invoked |-> iters]

\* DeltaIteratorMerger::FreeDeltaBlocks
FreeDeltaBlocks(iters, results) == ForEachChildFrom(iters, 1, results)

\* The merger that the actions work on.
Merger ==
    [iters_ |-> iters_,
     total_deltas_selected_in_prepare_ |-> total_deltas_selected_in_prepare_]

\* The loop of PrepareBatch from the i-th child on. A child that is given the
\* count seed has the count seed + added[child] after its PrepareBatch.
RECURSIVE PrepareBatchFrom(_, _, _, _)
PrepareBatchFrom(m, i, results, added) ==
    IF i > Len(m.iters_)
    THEN [m EXCEPT !.status = OK]
    ELSE LET iter == m.iters_[i]
             seed == m.total_deltas_selected_in_prepare_
             called == [m EXCEPT !.invoked = Append(@, iter),
                                 !.seeds = Append(@, seed)]
         IN IF results[iter] # OK
            THEN [called EXCEPT !.status = results[iter]]
            ELSE PrepareBatchFrom(
                     [called EXCEPT !.total_deltas_selected_in_prepare_ =
                                        seed + added[iter]],
                     i + 1, results, added)

\* A PrepareBatch that counts every batch from zero.
PrepareBatchFromZero(m, results, added) ==
    PrepareBatchFrom([iters_ |-> m.iters_, total_deltas_selected_in_prepare_ |-> 0,
                      status |-> OK, invoked |-> <<>>, seeds |-> <<>>],
                     1, results, added)

\* DeltaIteratorMerger::PrepareBatch
PrepareBatch(m, results, added) ==
    PrepareBatchFrom([iters_ |-> m.iters_,
                      total_deltas_selected_in_prepare_ |->
                          m.total_deltas_selected_in_prepare_,
                      status |-> OK, invoked |-> <<>>, seeds |-> <<>>],
                     1, results, added)

\* DeltaKey::CompareTo<REDO>: by row index, then by timestamp.
CompareToREDO(a, b) ==
    IF a[1] # b[1] THEN (IF a[1] < b[1] THEN -1 ELSE 1)
    ELSE IF a[2] # b[2] THEN (IF a[2] < b[2] THEN -1 ELSE 1)
    ELSE 0

\* DeltaKeyUpdateComparator::operator()
DeltaKeyUpdateComparator(a, b) == CompareToREDO(a.key, b.key) < 0

\* x put in the sorted t before the entries that are not less than x, and
\* after those that x is not less than.
InsertFirst(t, x) ==
    LET n == Cardinality({j \in 1..Len(t) : DeltaKeyUpdateComparator(t[j], x)}) IN
    SubSeq(t, 1, n) \o <<x>> \o SubSeq(t, n + 1, Len(t))
InsertLast(t, x) ==
    LET n == Cardinality({j \in 1..Len(t) : ~DeltaKeyUpdateComparator(x, t[j])}) IN
    SubSeq(t, 1, n) \o <<x>> \o SubSeq(t, n + 1, Len(t))

RECURSIVE SortFirst(_, _, _)
SortFirst(s, n, stable) ==
    IF n = 0 THEN <<>>
    ELSE IF stable THEN InsertLast(SortFirst(s, n - 1, stable), s[n])
         ELSE InsertFirst(SortFirst(s, n - 1, stable), s[n])

\* A sort that is not stable: it reverses the entries of equal keys.
UnstableSort(s) == SortFirst(s, Len(s), FALSE)

\* std::stable_sort(out->begin(), out->end(), DeltaKeyUpdateComparator())
StableSort(s) == SortFirst(s, Len(s), TRUE)

\* The loop of FilterColumnIdsAndCollectDeltas from the i-th child on, and
\* the sort after it. A child that is called appends appended[child] to out.
RECURSIVE CollectFrom(_, _, _, _, _)
CollectFrom(iters, i, results, appended, out) ==
    IF i > Len(iters)
    THEN [status |-> OK, invoked |-> iters, out |-> StableSort(out)]
    ELSE IF results[iters[i]] # OK
         THEN [status |-> results[iters[i]], invoked |-> SubSeq(iters, 1, i),
               out |-> out \o appended[iters[i]]]
         ELSE CollectFrom(iters, i + 1, results, appended, out \o appended[iters[i]])

\* DeltaIteratorMerger::FilterColumnIdsAndCollectDeltas
FilterColumnIdsAndCollectDeltas(iters, results, appended, out) ==
    CollectFrom(iters, 1, results, appended, out)

\* The loop of HasNext and of MayHaveDeltas from the i-th child on.
RECURSIVE AnyChildFrom(_, _, _)
AnyChildFrom(iters, i, answers) ==
    IF i > Len(iters) THEN FALSE
    ELSE IF answers[iters[i]] THEN TRUE
         ELSE AnyChildFrom(iters, i + 1, answers)

\* DeltaIteratorMerger::HasNext
HasNext(iters, answers) == AnyChildFrom(iters, 1, answers)

\* DeltaIteratorMerger::MayHaveDeltas
MayHaveDeltas(iters, answers) == AnyChildFrom(iters, 1, answers)

\* RETURN_NOT_OK_PREPEND in Create: the status of the store with the same
\* code and "Could not create iterator for store <store>: " before its
\* message. The message of ChildError(c) is the number c.
CloneAndPrepend(st, store) ==
    "IOError: Could not create iterator for store " \o ToString(store) \o ": "
       \o ToString(CHOOSE c \in Stores : st = ChildError(c))

\* A Create that skips every store whose NewDeltaIterator fails.
CreateSkippingErrors(stores, results, out) ==
    LET delta_iters == SelectSeq(stores, LAMBDA c : results[c] = OK) IN
    IF Len(delta_iters) = 1
    THEN [status |-> OK, invoked |-> stores,
          out |-> [kind |-> "child", iter |-> delta_iters[1]], iters_ |-> <<>>]
    ELSE [status |-> OK, invoked |-> stores,
          out |-> [kind |-> "merger", iter |-> 0], iters_ |-> delta_iters]

\* The loop of Create over the stores from the i-th on: the iterator of a
\* store is named after the store.
RECURSIVE NewDeltaIterators(_, _, _, _)
NewDeltaIterators(stores, i, results, delta_iters) ==
    IF i > Len(stores)
    THEN [status |-> OK, invoked |-> stores, delta_iters |-> delta_iters]
    ELSE LET st == results[stores[i]] IN
         IF st = NotFound
         THEN NewDeltaIterators(stores, i + 1, results, delta_iters)
         ELSE IF st # OK
              THEN [status |-> CloneAndPrepend(st, stores[i]),
                    invoked |-> SubSeq(stores, 1, i),
                    delta_iters |-> delta_iters]
              ELSE NewDeltaIterators(stores, i + 1, results,
                                     Append(delta_iters, stores[i]))

\* A Create that wraps a merger around a single child too.
CreateAlwaysMerger(stores, results, out) ==
    LET r == NewDeltaIterators(stores, 1, results, <<>>) IN
    IF r.status # OK
    THEN [status |-> r.status, invoked |-> r.invoked, out |-> out, iters_ |-> <<>>]
    ELSE [status |-> OK, invoked |-> r.invoked,
          out |-> [kind |-> "merger", iter |-> 0], iters_ |-> r.delta_iters]

\* DeltaIteratorMerger::Create, with the caller's iterator out: it returns
\* the iterator out holds then, and the children of the merger if it made one.
Create(stores, results, out) ==
    LET r == NewDeltaIterators(stores, 1, results, <<>>) IN
    IF r.status # OK
    THEN [status |-> r.status, invoked |-> r.invoked, out |-> out, iters_ |-> <<>>]
    ELSE IF Len(r.delta_iters) = 1
         THEN [status |-> OK, invoked |-> r.invoked,
               out |-> [kind |-> "child", iter |-> r.delta_iters[1]],
               iters_ |-> <<>>]
         ELSE [status |-> OK, invoked |-> r.invoked,
               out |-> [kind |-> "merger", iter |-> 0], iters_ |-> r.delta_iters]

(***************************************************************************)
(* The calls on the merger and on Create, one step each: the merger is     *)
(* used by one thread.                                                     *)
(***************************************************************************)
\* The sequences over S of length n at most.
SeqsUpTo(S, n) == UNION {[1..k -> S] : k \in 0..n}

\* The vectors of stores that Create is given: some of the stores, in any
\* order.
StoreVectors ==
    {v \in SeqsUpTo(Stores, NumStores) : \A i, j \in 1..Len(v) : v[i] = v[j] => i = j}

\* What NewDeltaIterator returns for each store of the vector.
StoreResults(stores) ==
    {r \in [Stores -> {OK, NotFound} \cup {ChildError(c) : c \in Stores}] :
        \A c \in Stores : /\ r[c] \in {OK, NotFound, ChildError(c)}
                          /\ c \notin Children(stores) => r[c] = OK}

\* The record of a call of op.
MergerCall(op) == [NoMergerCall EXCEPT !.op = op]

\* Create is called with an iterator that is not set.
MergerCreate ==
    /\ created = NoIterator
    /\ \E stores \in StoreVectors :
       \E results \in StoreResults(stores) :
          LET r == Create(stores, results, created) IN
          /\ created' = r.out
          /\ iters_' = r.iters_
          /\ total_deltas_selected_in_prepare_' = 0
          /\ merger_last' = [MergerCall("Create") EXCEPT !.status = r.status,
                                                         !.invoked = r.invoked,
                                                         !.results = results,
                                                         !.given = stores]
    /\ UNCHANGED notMergerVars

\* A call of one of the methods that only loop over the children.
Broadcast(op) ==
    /\ created.kind = "merger"
    /\ \E failing \in SUBSET Children(iters_) :
          LET r == ForEachChild(iters_, ResultsOf(failing)) IN
          merger_last' = [MergerCall(op) EXCEPT !.status = r.status,
                                               !.invoked = r.invoked,
                                               !.results = ResultsOf(failing)]
    /\ UNCHANGED <<created, iters_, total_deltas_selected_in_prepare_, notMergerVars>>

MergerInit == Broadcast("Init")
MergerSeekToOrdinal == Broadcast("SeekToOrdinal")
MergerApplyUpdates == Broadcast("ApplyUpdates")
MergerApplyDeletes == Broadcast("ApplyDeletes")
MergerSelectDeltas == Broadcast("SelectDeltas")
MergerCollectMutations == Broadcast("CollectMutations")

\* Each child selects no delta or one more in a batch, as long as the count
\* is MaxSelected at most.
MergerPrepareBatch ==
    /\ created.kind = "merger"
    /\ \E failing \in SUBSET Children(iters_), selecting \in SUBSET Children(iters_) :
          LET added == [c \in Stores |-> IF c \in selecting THEN 1 ELSE 0]
              r == PrepareBatch(Merger, ResultsOf(failing), added)
          IN /\ r.total_deltas_selected_in_prepare_ <= MaxSelected
             /\ total_deltas_selected_in_prepare_' = r.total_deltas_selected_in_prepare_
             /\ merger_last' = [MergerCall("PrepareBatch") EXCEPT
                                    !.status = r.status,
                                    !.invoked = r.invoked,
                                    !.results = ResultsOf(failing),
                                    !.seeds = r.seeds,
                                    !.added = added,
                                    !.before = total_deltas_selected_in_prepare_]
    /\ UNCHANGED <<created, iters_, notMergerVars>>

MergerHasNext ==
    /\ created.kind = "merger"
    /\ \E having \in SUBSET Children(iters_) :
          LET answers == [c \in Stores |-> c \in having] IN
          merger_last' = [MergerCall("HasNext") EXCEPT
                             !.answers = answers,
                             !.value = HasNext(iters_, answers)]
    /\ UNCHANGED <<created, iters_, total_deltas_selected_in_prepare_, notMergerVars>>

MergerMayHaveDeltas ==
    /\ created.kind = "merger"
    /\ \E having \in SUBSET Children(iters_) :
          LET answers == [c \in Stores |-> c \in having] IN
          merger_last' = [MergerCall("MayHaveDeltas") EXCEPT
                             !.answers = answers,
                             !.value = MayHaveDeltas(iters_, answers)]
    /\ UNCHANGED <<created, iters_, total_deltas_selected_in_prepare_, notMergerVars>>

MergerFreeDeltaBlocks ==
    /\ created.kind = "merger"
    /\ \E failing \in SUBSET {c \in Children(iters_) : ~IsDMSIterator(c)} :
          LET r == FreeDeltaBlocks(iters_, FreeResultsOf(failing)) IN
          merger_last' = [MergerCall("FreeDeltaBlocks") EXCEPT
                             !.status = r.status,
                             !.invoked = r.invoked,
                             !.results = FreeResultsOf(failing)]
    /\ UNCHANGED <<created, iters_, total_deltas_selected_in_prepare_, notMergerVars>>

InitMerger ==
    /\ StoresIdle
    /\ VCIdle
    /\ ElectionIdle

NextMerger ==
    \/ MergerCreate
    \/ MergerInit
    \/ MergerSeekToOrdinal
    \/ MergerPrepareBatch
    \/ MergerApplyUpdates
    \/ MergerApplyDeletes
    \/ MergerSelectDeltas
    \/ MergerCollectMutations
    \/ MergerHasNext
    \/ MergerMayHaveDeltas
    \/ MergerFreeDeltaBlocks

SpecMerger == InitMerger /\ [][NextMerger]_vars

(***************************************************************************)
(* FilterColumnIdsAndCollectDeltas on the mergers that Create makes. The   *)
(* method reads iters_ only and leaves the merger as it is, so that one    *)
(* call on each merger shows them all.                                     *)
(***************************************************************************)
\* The entries with the keys keys[lo + 1..lo + n]; the update of an entry
\* is named after its place in keys.
Entries(keys, lo, n) == [k \in 1..n |-> [key |-> keys[lo + k], update |-> lo + k]]

\* The vector holds the first entries of keys already; each child appends
\* the next ones, as many as it likes, MaxCollected entries in all at most.
MergerFilterColumnIdsAndCollectDeltas ==
    /\ created.kind = "merger"
    /\ merger_last.op = "Create"
    /\ \E keys \in SeqsUpTo(DeltaKeys, MaxCollected),
          failing \in SUBSET Children(iters_) :
       \E owner \in [1..Len(keys) -> 0..Len(iters_)] :
          /\ \A i, j \in 1..Len(keys) : i <= j => owner[i] <= owner[j]
          /\ LET From(o) ==
                     Entries(keys,
                             Cardinality({j \in 1..Len(keys) : owner[j] < o}),
                             Cardinality({j \in 1..Len(keys) : owner[j] = o}))
                 appended ==
                     [c \in Stores |->
                         IF c \in Children(iters_)
                         THEN From(CHOOSE i \in 1..Len(iters_) : iters_[i] = c)
                         ELSE <<>>]
                 r == FilterColumnIdsAndCollectDeltas(iters_, ResultsOf(failing),
                                                      appended, From(0))
             IN merger_last' = [MergerCall("FilterColumnIdsAndCollectDeltas") EXCEPT
                                    !.status = r.status,
                                    !.invoked = r.invoked,
                                    !.results = ResultsOf(failing),
                                    !.given = From(0),
                                    !.appended = appended,
                                    !.out = r.out]
    /\ UNCHANGED <<created, iters_, total_deltas_selected_in_prepare_, notMergerVars>>

NextCollect ==
    \/ MergerCreate
    \/ MergerFilterColumnIdsAndCollectDeltas

SpecCollect == InitMerger /\ [][NextCollect]_vars

(***************************************************************************)
(* Claims on the DeltaIteratorMerger.                                      *)
(***************************************************************************)
BroadcastOps ==
    {"Init", "SeekToOrdinal", "PrepareBatch", "ApplyUpdates", "ApplyDeletes",
     "SelectDeltas"}

\* C26: Init, SeekToOrdinal, PrepareBatch, ApplyUpdates, ApplyDeletes and
\* SelectDeltas call the children in the order of iters_, up to the first
\* child that fails and no further, and return the status of that child; they
\* call every child and return OK when none fails.
C26_FirstFailureReturned ==
    merger_last.op \in BroadcastOps =>
        LET invoked == merger_last.invoked
            n == Len(invoked)
        IN /\ n <= Len(iters_)
           /\ invoked = SubSeq(iters_, 1, n)
           /\ \A i \in 1..(n - 1) : merger_last.results[invoked[i]] = OK
           /\ IF \E c \in Children(iters_) : merger_last.results[c] # OK
              THEN /\ n >= 1
                   /\ merger_last.results[invoked[n]] # OK
                   /\ merger_last.status = merger_last.results[invoked[n]]
              ELSE /\ n = Len(iters_)
                   /\ merger_last.status = OK

\* Both children of a merger would fail: ApplyUpdates has called the first
\* one only, which is not the first store, and has returned its status.
C26_Witness ==
    /\ merger_last.op = "ApplyUpdates"
    /\ iters_ = <<2, 1>>
    /\ merger_last.results[1] # OK
    /\ merger_last.results[2] # OK
    /\ merger_last.invoked = <<2>>
    /\ merger_last.status = ChildError(2)

\* C27: in PrepareBatch the first child is given the running count that the
\* calls before have left, each next child is given the count that the child
\* before it has left, and the running count becomes the count of the last
\* child that succeeded (it stays when the first child fails); nothing but
\* PrepareBatch changes the running count of a merger.
C27_CountThreaded ==
    [][/\ merger_last'.op = "PrepareBatch" =>
            LET invoked == merger_last'.invoked
                seeds == merger_last'.seeds
                n == Len(invoked)
                left(i) == seeds[i] + merger_last'.added[invoked[i]]
                succeeded == IF merger_last'.status = OK THEN n ELSE n - 1
            IN /\ Len(seeds) = n
               /\ n >= 1 => seeds[1] = total_deltas_selected_in_prepare_
               /\ \A i \in 1..(n - 1) : seeds[i + 1] = left(i)
               /\ total_deltas_selected_in_prepare_' =
                     IF succeeded >= 1 THEN left(succeeded)
                     ELSE total_deltas_selected_in_prepare_
       /\ (created.kind = "merger"
              /\ total_deltas_selected_in_prepare_' # total_deltas_selected_in_prepare_)
             => merger_last'.op = "PrepareBatch"]_vars

\* A second batch: the count was 1, the first child has raised it to 2 and
\* the second child, given 2, has failed.
C27_Witness ==
    /\ merger_last.op = "PrepareBatch"
    /\ merger_last.before = 1
    /\ merger_last.seeds = <<1, 2>>
    /\ merger_last.status # OK
    /\ total_deltas_selected_in_prepare_ = 2

\* What the children of iters have appended, one after the other.
RECURSIVE AppendedBy(_, _)
AppendedBy(iters, appended) ==
    IF iters = <<>> THEN <<>>
    ELSE appended[Head(iters)] \o AppendedBy(Tail(iters), appended)

\* The place of the entry e in the vector v.
PlaceIn(v, e) == CHOOSE k \in 1..Len(v) : v[k] = e

\* The key a is before the key b in the REDO order.
KeyBefore(a, b) == a[1] < b[1] \/ (a[1] = b[1] /\ a[2] < b[2])

\* C28: when every child succeeds, FilterColumnIdsAndCollectDeltas leaves in
\* the vector the entries it held and those the children have appended, each
\* once, in ascending order of their keys (row index, then timestamp), the
\* entries of one key in the order in which they were appended.
C28_StableSorted ==
    (merger_last.op = "FilterColumnIdsAndCollectDeltas" /\ merger_last.status = OK) =>
        LET collected == merger_last.given \o AppendedBy(iters_, merger_last.appended)
            out == merger_last.out
        IN /\ Len(out) = Len(collected)
           /\ {out[i] : i \in 1..Len(out)} = {collected[i] : i \in 1..Len(collected)}
           /\ \A i, j \in 1..Len(out) :
                 i < j => /\ ~KeyBefore(out[j].key, out[i].key)
                          /\ out[i].key = out[j].key =>
                                PlaceIn(collected, out[i]) < PlaceIn(collected, out[j])

\* The second child has appended an entry with a lower key than the entry
\* of the first child: the sort has put it first.
C28_Witness ==
    /\ merger_last.op = "FilterColumnIdsAndCollectDeltas"
    /\ merger_last.status = OK
    /\ Len(iters_) = 2
    /\ Len(merger_last.appended[iters_[1]]) = 1
    /\ Len(merger_last.appended[iters_[2]]) = 1
    /\ KeyBefore(merger_last.appended[iters_[2]][1].key,
                 merger_last.appended[iters_[1]][1].key)
    /\ merger_last.out = merger_last.appended[iters_[2]] \o merger_last.appended[iters_[1]]

\* The iterators that a Create that returned OK has created, in the order
\* of the stores.
CreatedBy(call) == SelectSeq(call.invoked, LAMBDA c : call.results[c] = OK)

\* C29: a Create that returns OK sets the caller's iterator to the child
\* itself if and only if it has created one child iterator, and to a merger
\* over the children otherwise; HasNext and MayHaveDeltas of a merger return
\* true if and only if one of its children does, false with no child.
C29_SingleChildBypass ==
    /\ (merger_last.op = "Create" /\ merger_last.status = OK) =>
          /\ created.kind = "child" <=> Len(CreatedBy(merger_last)) = 1
          /\ created.kind = "child" => created.iter = CreatedBy(merger_last)[1]
          /\ created.kind # "child" =>
                /\ created.kind = "merger"
                /\ iters_ = CreatedBy(merger_last)
    /\ merger_last.op \in {"HasNext", "MayHaveDeltas"} =>
          /\ created.kind = "merger"
          /\ Len(iters_) # 1
          /\ merger_last.value = (\E c \in Children(iters_) : merger_last.answers[c])

\* Create was given two stores and one has no delta for the snapshot: the
\* iterator of the other is returned as it is.
C29_Witness ==
    /\ merger_last.op = "Create"
    /\ merger_last.status = OK
    /\ Len(merger_last.invoked) = 2
    /\ \E c \in Stores : merger_last.results[c] = NotFound
    /\ created.kind = "child"

(***************************************************************************)
(* Claims on the election, continued.                                      *)
(***************************************************************************)
\* C30: highest_voter_term_ never decreases; the callback of a response with
\* no RPC error, no tablet error and the voter's own uuid that carries a
\* responder_term makes it the larger of its value and that term; the
\* callback of any other response and every other step, a proxy failure in
\* Run included, leave it as it is.
C30_HighestVoterTermMonotonic ==
    [][/\ highest_voter_term' >= highest_voter_term
       /\ \A v \in OtherPeers : HandlesResponse(v) =>
             LET r == voter_state'[v].response IN
             highest_voter_term' =
                IF CleanResponse(v, r) /\ r.has_responder_term
                      /\ r.responder_term > highest_voter_term
                THEN r.responder_term
                ELSE highest_voter_term
       /\ (\A v \in OtherPeers : ~HandlesResponse(v)) =>
             highest_voter_term' = highest_voter_term]_vars

\* Two voters have answered without error, one with a lower term than the
\* other: the highest voter term is the higher one.
C30_Witness ==
    \E v, w \in OtherPeers :
       /\ Handled(v) /\ Handled(w)
       /\ CleanResponse(v, voter_state[v].response)
       /\ CleanResponse(w, voter_state[w].response)
       /\ voter_state[v].response.has_responder_term
       /\ voter_state[w].response.has_responder_term
       /\ voter_state[w].response.responder_term < voter_state[v].response.responder_term
       /\ highest_voter_term = voter_state[v].response.responder_term

\* C31: the election result is write-once: once result_ is set, by the
\* counter's decision or by a higher-term cancellation, no step changes it,
\* neither a later higher-term denial nor late grants that form a majority.
C31_ResultWriteOnce ==
    [][result.set => result' = result]_vars

\* A higher-term denial of v made the result; the later higher-term denial of
\* w, with another term, left it as it was.
C31_Witness ==
    \E v, w \in OtherPeers :
        /\ v # w
        /\ Handled(v) /\ HigherTermDenial(v, voter_state[v].response)
        /\ Handled(w) /\ HigherTermDenial(w, voter_state[w].response)
        /\ voter_state[w].response.responder_term
              # voter_state[v].response.responder_term
        /\ result = ElectionResult(VOTE_DENIED,
                                   voter_state[v].response.responder_term,
                                   MsgHigherTerm(v))

\* This step constructs the election result.
ConstructsResult == ~result.set /\ result'.set

\* C32: a result is GRANTED only if, as it was constructed, the counter held
\* at least majority_size granted votes of distinct voters, the candidate's
\* own included; a result constructed from the counter is DENIED only if more
\* than num_voters - majority_size distinct voters were denied; and the
\* callback reports the result so constructed.
C32_DecisionFromCounter ==
    [][/\ ConstructsResult =>
            /\ result'.decision = VOTE_GRANTED =>
                  /\ CountOf(vote_counter, VOTE_GRANTED) >= vote_counter.majority_size
                  /\ result'.message = MsgWon
            /\ (result'.decision = VOTE_DENIED /\ result'.message = MsgLost) =>
                  CountOf(vote_counter, VOTE_DENIED)
                     > vote_counter.num_voters - vote_counter.majority_size
            /\ result'.message \in {MsgWon, MsgLost} => vote_counter' = vote_counter
       /\ delivered' # delivered =>
            /\ delivered' = <<result>>
            /\ result.decision = VOTE_GRANTED =>
                  CountOf(vote_counter, VOTE_GRANTED) >= vote_counter.majority_size
      ]_vars

\* The callback got GRANTED from a majority of two: the candidate and a peer.
C32_Witness ==
    /\ Len(delivered) = 1
    /\ delivered[1].decision = VOTE_GRANTED
    /\ vote_counter.majority_size = 2
    /\ CandidateUuid \in VotersWith(vote_counter, VOTE_GRANTED)
    /\ \E v \in OtherPeers : v \in VotersWith(vote_counter, VOTE_GRANTED)

\* C35, as stated: the highest_voter_term of the result is at least the
\* responder_term of every response without an error that was handled before
\* the result was constructed, the one whose handling constructs it included,
\* whether the counter or a higher-term denial made the result, in elections
\* and pre-elections.
C35_Original ==
    [][ConstructsResult =>
          \A v \in OtherPeers :
              (/\ v \in DOMAIN voter_state'
               /\ cb_pc'[v] \in {"check", "respond", "done"}
               /\ CleanResponse(v, voter_state'[v].response))
              => result'.highest_voter_term >= voter_state'[v].response.responder_term
      ]_vars

\* The same for the results that the counter's decision makes.
C35_CounterPath ==
    [][(ConstructsResult /\ result'.message \in {MsgWon, MsgLost}) =>
          \A v \in OtherPeers :
              (/\ v \in DOMAIN voter_state'
               /\ cb_pc'[v] \in {"check", "respond", "done"}
               /\ CleanResponse(v, voter_state'[v].response))
              => result'.highest_voter_term >= voter_state'[v].response.responder_term
      ]_vars

\* The same for the elections that are no pre-elections.
C35_Elections ==
    [][(ConstructsResult /\ ~is_pre_election) =>
          \A v \in OtherPeers :
              (/\ v \in DOMAIN voter_state'
               /\ cb_pc'[v] \in {"check", "respond", "done"}
               /\ CleanResponse(v, voter_state'[v].response))
              => result'.highest_voter_term >= voter_state'[v].response.responder_term
      ]_vars

\* Run has sent the vote RPC to every other VOTER peer that has a proxy, with
\* the voter's uuid as dest_uuid, by the time it returns.
AllRpcsSent ==
    run_pc = "done" =>
       \A p \in OtherPeers :
           (config[p] = VOTER /\ proxy_factory[p]) =>
              /\ cb_pc[p] # "idle"
              /\ voter_state[p].dest_uuid = p

\* A vote RPC leaves for v in this step only as the loop of Run visits v, and
\* the loop visits every voter once.
SendsOnce ==
    \A v \in OtherPeers :
        (cb_pc'[v] # cb_pc[v] /\ cb_pc'[v] = "inflight") =>
           /\ cb_pc[v] = "idle"
           /\ run_pc = "loop"
           /\ other_voter_uuids[run_i] = v
           /\ run_i' = run_i + 1
           /\ voter_state'[v].dest_uuid = v

\* The decision callback is not invoked again.
NoSecondCallback == delivered' # delivered => delivered = <<>>

\* C36, as stated: Run sends exactly one vote RPC, with the voter's uuid as
\* dest_uuid, to every other VOTER peer with a proxy, decided or not; a
\* response handled when the result exists is recorded in the counter and
\* invokes no further callback.
C36_Original ==
    /\ []AllRpcsSent
    /\ [][/\ SendsOnce
          /\ NoSecondCallback
          /\ \A v \in OtherPeers :
                (HandlesResponse(v) /\ result.set) =>
                   /\ v \notin DOMAIN vote_counter.votes
                   /\ v \in DOMAIN vote_counter'.votes]_vars

\* C36 amended: Run sends exactly one vote RPC, with the voter's uuid as
\* dest_uuid, to every other VOTER peer with a proxy, decided or not; a
\* response handled when the result exists is recorded in the counter,
\* unless it is a clean denial with a term above the election's, which
\* leaves the counter as it was; neither invokes a further callback.
C36_SendsToEveryVoter ==
    /\ []AllRpcsSent
    /\ [][/\ SendsOnce
          /\ NoSecondCallback
          /\ \A v \in OtherPeers :
                (HandlesResponse(v) /\ result.set) =>
                   LET r == voter_state'[v].response IN
                   IF HigherTermDenial(v, r)
                   THEN vote_counter' = vote_counter
                   ELSE /\ v \notin DOMAIN vote_counter.votes
                        /\ v \in DOMAIN vote_counter'.votes
                        /\ vote_counter'.votes[v] =
                              IF CleanResponse(v, r) /\ r.vote_granted
                              THEN VOTE_GRANTED ELSE VOTE_DENIED
                        /\ result' = result]_vars

\* Every thread returned and the callback ran once, with a result that the
\* counter decided; the clean response of v carries a term above the
\* result's, so that it was handled after the decision, and its vote is in
\* the counter.
C36_Witness ==
    /\ AllReturned
    /\ Len(delivered) = 1
    /\ delivered[1].message \in {MsgWon, MsgLost}
    /\ \E v \in OtherPeers :
          /\ cb_pc[v] = "done"
          /\ voter_state[v].dest_uuid = v
          /\ CleanResponse(v, voter_state[v].response)
          /\ voter_state[v].response.responder_term > delivered[1].highest_voter_term
          /\ v \in DOMAIN vote_counter.votes

\* The GRANTED and the DENIED condition of GetDecision.
GrantedCondition(c) == c.yes_votes >= c.majority_size
DeniedCondition(c) == c.no_votes > c.num_voters - c.majority_size

\* C33: the decision of a VoteCounter is unique and stable: the GRANTED and
\* the DENIED condition never hold together, a GetDecision that returns OK
\* returns the decision of the one condition that holds, and a RegisterVote
\* call on a decided counter, whatever it returns, leaves GetDecision
\* returning the same decision.
C33_DecisionUniqueAndStable ==
    /\ [](/\ ~(GrantedCondition(vc) /\ DeniedCondition(vc))
          /\ (vc_last.op = "GetDecision" /\ vc_last.status = OK) =>
                /\ vc_last.decision = GetDecision(vc, Unset).decision
                /\ (vc_last.decision = VOTE_GRANTED) <=> GrantedCondition(vc)
                /\ (vc_last.decision = VOTE_DENIED) <=> DeniedCondition(vc))
    /\ [][GetDecision(vc, Unset).status = OK =>
             /\ GetDecision(vc', Unset) = GetDecision(vc, Unset)
             /\ IsDecided(vc')]_vars

\* A counter with the majority granted took the denial of one more voter, and
\* GetDecision would still say GRANTED.
C33_Witness ==
    /\ vc_last.op = "RegisterVote"
    /\ vc_last.status = OK
    /\ ~vc_last.is_duplicate
    /\ vc_last.vote = VOTE_DENIED
    /\ vc.no_votes = 1
    /\ vc.yes_votes = vc.majority_size
    /\ vc.majority_size >= 2
    /\ GetDecision(vc, Unset).decision = VOTE_GRANTED

\* C34: a VoteCounter that holds all its votes (yes_votes + no_votes =
\* num_voters) is decided, and IsDecided says so, for every num_voters > 0
\* and every majority_size from 1 to num_voters.
C34_AllVotesInDecided ==
    /\ AreAllVotesIn(vc) => IsDecided(vc) /\ GetDecision(vc, Unset).status = OK
    /\ (vc_last.op = "IsDecided" /\ AreAllVotesIn(vc)) => vc_last.ret

\* All votes are in, one grant short of the majority, and IsDecided returned
\* true.
C34_Witness ==
    /\ vc_last.op = "IsDecided"
    /\ vc_last.ret
    /\ AreAllVotesIn(vc)
    /\ vc.num_voters >= 2
    /\ vc.yes_votes = vc.majority_size - 1

(***************************************************************************)
(* Claims on the delta iterator merger, continued.                         *)
(***************************************************************************)
\* The places of the vector of stores whose NewDeltaIterator fails with a
\* status that is not NotFound.
FailedStores(call) ==
    {i \in 1..Len(call.given) : call.results[call.given[i]] \notin {OK, NotFound}}

\* The stores of the vector that have deltas for the snapshot, in the order
\* of the vector.
StoresFound(call) == SelectSeq(call.given, LAMBDA c : call.results[c] # NotFound)

\* C37: Create skips every store whose NewDeltaIterator returns NotFound and
\* keeps the iterators of the others in the order of the stores; the first
\* store that fails with another status ends Create with that status, the
\* store named before its message, the stores after it not asked and the
\* caller's iterator left unset.
C37_CreateSkipsNotFound ==
    merger_last.op = "Create" =>
       IF FailedStores(merger_last) = {}
       THEN /\ merger_last.status = OK
            /\ merger_last.invoked = merger_last.given
            /\ created.kind \in {"child", "merger"}
            /\ created.kind = "child" => StoresFound(merger_last) = <<created.iter>>
            /\ created.kind = "merger" => iters_ = StoresFound(merger_last)
       ELSE LET i == CHOOSE i \in FailedStores(merger_last) :
                        \A j \in FailedStores(merger_last) : i <= j
                store == merger_last.given[i] IN
            /\ merger_last.status = CloneAndPrepend(merger_last.results[store], store)
            /\ merger_last.status \notin {OK, NotFound}
            /\ merger_last.invoked = SubSeq(merger_last.given, 1, i)
            /\ created = NoIterator
            /\ iters_ = <<>>

\* Create was given two stores: the first has no delta for the snapshot and
\* the second fails, and Create has failed with the second's status.
C37_Witness ==
    /\ merger_last.op = "Create"
    /\ Len(merger_last.given) = 2
    /\ merger_last.results[merger_last.given[1]] = NotFound
    /\ merger_last.results[merger_last.given[2]] = ChildError(merger_last.given[2])
    /\ merger_last.status
          = CloneAndPrepend(ChildError(merger_last.given[2]), merger_last.given[2])
    /\ created = NoIterator

\* The merger has a DMSIterator among its children.
HasDMSIterator == \E c \in Children(iters_) : IsDMSIterator(c)

\* FreeDeltaBlocks of the merger returns OK only if FreeDeltaBlocks of every
\* child does, and it asks the children in the order of iters_ up to the
\* first that fails.
FreesUpToFirstFailure ==
    LET invoked == merger_last.invoked
        n == Len(invoked)
    IN /\ invoked = SubSeq(iters_, 1, n)
       /\ \A i \in 1..(n - 1) : merger_last.results[invoked[i]] = OK
       /\ merger_last.status = OK =>
             /\ n = Len(iters_)
             /\ \A c \in Children(iters_) : merger_last.results[c] = OK
       /\ merger_last.status # OK =>
             /\ n >= 1
             /\ merger_last.status = merger_last.results[invoked[n]]

\* C38, as stated: FreeDeltaBlocks of a merger returns OK only if that of
\* every child does; a merger with a DMSIterator among its children always
\* fails with NotSupported, and frees no blocks of the children after the
\* DMSIterator.
C38_Original ==
    merger_last.op = "FreeDeltaBlocks" =>
       /\ FreesUpToFirstFailure
       /\ HasDMSIterator =>
             /\ merger_last.status = DMSFreeDeltaBlocks
             /\ \A i \in 1..Len(merger_last.invoked) :
                   \A j \in 1..(i - 1) : ~IsDMSIterator(merger_last.invoked[j])

\* C38 amended: FreeDeltaBlocks of a merger returns OK only if that of every
\* child does; a merger with a DMSIterator among its children never returns
\* OK: it fails with NotSupported if every child before the DMSIterator
\* returns OK, and with the status of the first of them that fails
\* otherwise; it frees no blocks of the children after the DMSIterator.
C38_FreeDeltaBlocksFailsOnDMS ==
    merger_last.op = "FreeDeltaBlocks" =>
       /\ FreesUpToFirstFailure
       /\ HasDMSIterator =>
             /\ merger_last.status # OK
             /\ LET last == merger_last.invoked[Len(merger_last.invoked)] IN
                IF IsDMSIterator(last)
                THEN merger_last.status = DMSFreeDeltaBlocks
                ELSE /\ merger_last.status = ChildError(last)
                     /\ \A c \in Children(merger_last.invoked) : ~IsDMSIterator(c)
             /\ \A i \in 1..Len(merger_last.invoked) :
                   \A j \in 1..(i - 1) : ~IsDMSIterator(merger_last.invoked[j])

\* The DMSIterator is the first of two children: FreeDeltaBlocks has asked it
\* only and has failed with NotSupported, the second child not being freed.
C38_Witness ==
    /\ merger_last.op = "FreeDeltaBlocks"
    /\ Len(iters_) = 2
    /\ IsDMSIterator(iters_[1])
    /\ merger_last.invoked = <<iters_[1]>>
    /\ merger_last.status = DMSFreeDeltaBlocks

(***************************************************************************)
(* HmsNotificationLogListenerTask: RunLoop on the listener's thread,       *)
(* WaitForCatchUp on the waiters' threads and Shutdown. A block under      *)
(* lock_ is one step; the loops over callback_batch work on a local of     *)
(* RunLoop and are one step each.                                          *)
(***************************************************************************)
\* Status::ServiceUnavailable(kShutdownMessage)
ServiceUnavailable ==
    "ServiceUnavailable: Hive Metastore notification log listener is shutting down"

\* A failure of Poll other than the shutdown.
PollFailed == "NetworkError: failed to retrieve notification log events"

\* What a call of Poll may return: it returns ServiceUnavailable only when
\* it finds closing_ set.
PollStatuses(closing) ==
    {OK, PollFailed} \cup (IF closing THEN {ServiceUnavailable} ELSE {})

\* How many times the vector of callbacks holds the callback of w.
Holds(callbacks, w) == Cardinality({i \in 1..Len(callbacks) : callbacks[i] = w})

\* for (auto& cb : callback_batch) cb(status): one more invocation of every
\* callback for each place that it has in the batch, with the status and the
\* Poll that the status is of (0 for the status of the shutdown).
InvokeAll(batch, status, poll) ==
    [w \in Waiters |->
        invocations[w] \o [i \in 1..Holds(batch, w) |-> [status |-> status, poll |-> poll]]]

\* Status s = Poll(): the call begins.
ListenerPollBegin ==
    /\ loop_pc = "poll"
    /\ Len(polls) < MaxPolls
    /\ polls' = Append(polls, "running")
    /\ loop_pc' = "polling"
    /\ UNCHANGED <<closing_, catch_up_callbacks_, callback_batch, poll_status, waiter,
                   invocations, shutdown_pc, notListenerVars>>

\* Poll returns.
ListenerPollEnd ==
    /\ loop_pc = "polling"
    /\ \E status \in PollStatuses(closing_) :
          /\ poll_status' = status
          /\ polls' = [polls EXCEPT ![Len(polls)] = status]
    /\ loop_pc' = "invoke"
    /\ UNCHANGED <<closing_, catch_up_callbacks_, callback_batch, waiter,
                   invocations, shutdown_pc, notListenerVars>>

\* The callbacks of the batch are invoked with the status of the Poll, and
\* the batch is cleared.
ListenerInvokeBatch ==
    /\ loop_pc = "invoke"
    /\ invocations' = InvokeAll(callback_batch, poll_status, Len(polls))
    /\ callback_batch' = <<>>
    /\ loop_pc' = "locked"
    /\ UNCHANGED <<closing_, catch_up_callbacks_, poll_status, polls, waiter,
                   shutdown_pc, notListenerVars>>

\* A locked block that leaves the queue where it is when the listener is
\* closing.
ListenerLockedNoDrain ==
    /\ loop_pc = "locked"
    /\ IF closing_
       THEN /\ loop_pc' = "shutdown"
            /\ UNCHANGED <<callback_batch, catch_up_callbacks_>>
       ELSE IF catch_up_callbacks_ = <<>>
            THEN /\ loop_pc' = "waiting"
                 /\ UNCHANGED <<callback_batch, catch_up_callbacks_>>
            ELSE /\ callback_batch' = catch_up_callbacks_
                 /\ catch_up_callbacks_' = callback_batch
                 /\ loop_pc' = "poll"
    /\ UNCHANGED <<closing_, poll_status, polls, waiter, invocations, shutdown_pc,
                   notListenerVars>>

\* The locked block of RunLoop up to wake_up_cv_.WaitFor, or to its end when
\* the queue is not empty. The vector moved from is left empty or as it was.
ListenerLocked ==
    /\ loop_pc = "locked"
    /\ IF closing_
       THEN /\ callback_batch' = catch_up_callbacks_
            /\ catch_up_callbacks_' \in {<<>>, catch_up_callbacks_}
            /\ loop_pc' = "shutdown"
       ELSE IF catch_up_callbacks_ = <<>>
            THEN /\ loop_pc' = "waiting"
                 /\ UNCHANGED <<callback_batch, catch_up_callbacks_>>
            ELSE /\ callback_batch' = catch_up_callbacks_
                 /\ catch_up_callbacks_' = callback_batch
                 /\ loop_pc' = "poll"
    /\ UNCHANGED <<closing_, poll_status, polls, waiter, invocations, shutdown_pc,
                   notListenerVars>>

\* wake_up_cv_.WaitFor returns, signalled or timed out, with lock_ held
\* again: the rest of the locked block.
ListenerWakeUp ==
    /\ loop_pc = "waiting"
    /\ callback_batch' = catch_up_callbacks_
    /\ catch_up_callbacks_' = callback_batch
    /\ loop_pc' = IF closing_ THEN "shutdown" ELSE "poll"
    /\ UNCHANGED <<closing_, poll_status, polls, waiter, invocations, shutdown_pc,
                   notListenerVars>>

\* The loop after the while: the callbacks left are told of the shutdown.
ListenerInvokeShutdown ==
    /\ loop_pc = "shutdown"
    /\ invocations' = InvokeAll(callback_batch, ServiceUnavailable, 0)
    /\ loop_pc' = "done"
    /\ UNCHANGED <<closing_, catch_up_callbacks_, callback_batch, poll_status, polls,
                   waiter, shutdown_pc, notListenerVars>>

\* A WaitForCatchUp that enqueues its callback whether closing_ is set or not.
WaitForCatchUpAlways(w) ==
    /\ waiter[w].pc = "idle"
    /\ catch_up_callbacks_' = Append(catch_up_callbacks_, w)
    /\ waiter' = [waiter EXCEPT ![w] = [pc |-> "enqueued",
                                        enqueued_poll |-> Len(polls),
                                        status |-> OK]]
    /\ UNCHANGED <<closing_, callback_batch, poll_status, loop_pc, polls, invocations,
                   shutdown_pc, notListenerVars>>

\* The locked block of WaitForCatchUp on the thread of w. The callback of
\* w's synchronizer is named w; enqueued_poll is the number of calls of Poll
\* that have begun.
WaitForCatchUp(w) ==
    /\ waiter[w].pc = "idle"
    /\ IF closing_
       THEN /\ waiter' = [waiter EXCEPT ![w] = [pc |-> "refused",
                                                enqueued_poll |-> 0,
                                                status |-> ServiceUnavailable]]
            /\ UNCHANGED catch_up_callbacks_
       ELSE /\ catch_up_callbacks_' = Append(catch_up_callbacks_, w)
            /\ waiter' = [waiter EXCEPT ![w] = [pc |-> "enqueued",
                                                enqueued_poll |-> Len(polls),
                                                status |-> OK]]
    /\ UNCHANGED <<closing_, callback_batch, poll_status, loop_pc, polls, invocations,
                   shutdown_pc, notListenerVars>>

\* The locked block of Shutdown.
ListenerShutdown ==
    /\ shutdown_pc = "none"
    /\ ~closing_
    /\ closing_' = TRUE
    /\ shutdown_pc' = "joining"
    /\ UNCHANGED <<catch_up_callbacks_, callback_batch, poll_status, loop_pc, polls,
                   waiter, invocations, notListenerVars>>

\* ThreadJoiner(thread_.get()).Join() returns when RunLoop has.
ListenerJoin ==
    /\ shutdown_pc = "joining"
    /\ loop_pc = "done"
    /\ shutdown_pc' = "joined"
    /\ UNCHANGED <<closing_, catch_up_callbacks_, callback_batch, poll_status, loop_pc,
                   polls, waiter, invocations, notListenerVars>>

InitListener ==
    /\ StoresIdle
    /\ VCIdle
    /\ ElectionIdle

NextListener ==
    \/ ListenerPollBegin
    \/ ListenerPollEnd
    \/ ListenerInvokeBatch
    \/ ListenerLocked
    \/ ListenerWakeUp
    \/ ListenerInvokeShutdown
    \/ \E w \in Waiters : WaitForCatchUp(w)
    \/ ListenerShutdown
    \/ ListenerJoin

SpecListener == InitListener /\ [][NextListener]_vars

\* The callback of w is enqueued and has not been invoked.
Pending(w) == waiter[w].pc = "enqueued" /\ invocations[w] = <<>>

\* C39: whatever the interleaving of WaitForCatchUp, RunLoop and Shutdown, a
\* callback that WaitForCatchUp has enqueued is invoked once and no more:
\* until then the queue or the batch holds it, once; it is invoked with the
\* status of a Poll that began after it was enqueued, or with
\* ServiceUnavailable after the shutdown; when RunLoop returns every
\* enqueued callback has been invoked. A WaitForCatchUp that finds closing_
\* set returns ServiceUnavailable and enqueues nothing.
C39_CallbacksInvokedOnce ==
    /\ [](\A w \in Waiters :
            /\ Len(invocations[w]) <= 1
            /\ invocations[w] # <<>> =>
                  /\ waiter[w].pc = "enqueued"
                  /\ LET e == invocations[w][1] IN
                     \/ /\ e.poll = 0
                        /\ e.status = ServiceUnavailable
                        /\ closing_
                     \/ /\ e.poll > waiter[w].enqueued_poll
                        /\ e.poll <= Len(polls)
                        /\ e.status = polls[e.poll]
            /\ Pending(w) =>
                  /\ loop_pc # "done"
                  /\ Holds(callback_batch, w)
                        + (IF loop_pc = "shutdown" THEN 0
                           ELSE Holds(catch_up_callbacks_, w)) = 1
            /\ waiter[w].pc = "refused" =>
                  /\ closing_
                  /\ waiter[w].status = ServiceUnavailable
                  /\ invocations[w] = <<>>
                  /\ Holds(callback_batch, w) = 0)
    /\ [][\A w \in Waiters :
             (waiter[w].pc = "idle" /\ waiter'[w].pc # "idle") =>
                IF closing_
                THEN /\ waiter'[w].pc = "refused"
                     /\ waiter'[w].status = ServiceUnavailable
                     /\ catch_up_callbacks_' = catch_up_callbacks_
                ELSE /\ waiter'[w].pc = "enqueued"
                     /\ catch_up_callbacks_' = Append(catch_up_callbacks_, w)]_vars

\* RunLoop has returned: one callback, enqueued while the first Poll ran,
\* got the status of the second; another got ServiceUnavailable as the
\* listener shut down.
C39_Witness ==
    /\ loop_pc = "done"
    /\ \E v, w \in Waiters :
          /\ waiter[v].enqueued_poll = 1
          /\ invocations[v] = <<[status |-> OK, poll |-> 2]>>
          /\ waiter[w].pc = "enqueued"
          /\ invocations[w] = <<[status |-> ServiceUnavailable, poll |-> 0]>>

(***************************************************************************)
(* HmsNotificationLogListenerTask::ParseMessage. The message of an event   *)
(* is taken by what the decoders make of it: text is the document that     *)
(* the text parses to as JSON (0 if it does not parse), base64 is -2 if    *)
(* the text is no base64, -1 if it is the base64 of bytes that zlib        *)
(* rejects, and the text that the bytes uncompress to otherwise.           *)
(***************************************************************************)
Documents == 1..NumDocuments

PlainText(t) == [text |-> t, base64 |-> -2]

\* A JSON object is no base64 text (it has braces); another text may be.
Messages ==
    {PlainText(t) : t \in Documents}
       \cup {[text |-> 0, base64 |-> b] : b \in (-2)..NumDocuments}

\* event.messageFormat: none, the two of Hive's encoders, and others.
MessageFormats ==
    {"", "json-0.2", "gzip(json-2.0)", "json-2.0", "gzip", "gzip(json-0.2)"}

\* HasPrefixString(str, prefix), for the formats of the model.
HasPrefixString(str, prefix) ==
    /\ prefix = "gzip"
    /\ str \in {"gzip(json-2.0)", "gzip", "gzip(json-0.2)"}

\* Status::NotSupported("unknown message format", event.messageFormat)
UnknownMessageFormat(messageFormat) ==
    "NotSupported: unknown message format: " \o messageFormat

FailedToDecode == "Corruption: failed to decode message"
\* The status of zlib::Uncompress, "failed decompress message" before its
\* message.
FailedDecompress == "failed decompress message: zlib"
FailedToParse == "Corruption: failed to parse message"

\* HmsNotificationLogListenerTask::DecodeGzipMessage; decoded is the
\* caller's string, written only when the status is OK.
DecodeGzipMessage(encoded, decoded) ==
    IF encoded.base64 = -2
    THEN [status |-> FailedToDecode, decoded |-> decoded]
    ELSE IF encoded.base64 = -1
         THEN [status |-> FailedDecompress, decoded |-> decoded]
         ELSE [status |-> OK, decoded |-> PlainText(encoded.base64)]

\* message->Parse<0>(content.c_str())
Parse(content) ==
    IF content.text = 0 THEN ParseErrorDocument
    ELSE [kind |-> "object", doc |-> content.text]

\* HmsNotificationLogListenerTask::ParseMessage; message is the caller's
\* Document, returned as the call leaves it.
ParseMessage(event, message) ==
    LET format == IF event.messageFormat = "" THEN "json-0.2"
                  ELSE event.messageFormat
    IN IF event.messageFormat # "json-0.2" /\ event.messageFormat # "gzip(json-2.0)"
       THEN [status |-> UnknownMessageFormat(event.messageFormat), message |-> message]
       ELSE LET d == IF HasPrefixString(format, "gzip")
                     THEN DecodeGzipMessage(event.message, PlainText(0))
                     ELSE [status |-> OK, decoded |-> event.message]
            IN IF d.status # OK
               THEN [status |-> d.status, message |-> message]
               ELSE IF Parse(d.decoded) = ParseErrorDocument
                    THEN [status |-> FailedToParse, message |-> Parse(d.decoded)]
                    ELSE [status |-> OK, message |-> Parse(d.decoded)]

\* HandleAlterTableEvent and HandleDropTableEvent call ParseMessage with a
\* new Document.
HandleEvent ==
    \E handler \in {"HandleAlterTableEvent", "HandleDropTableEvent"} :
    \E messageFormat \in MessageFormats :
    \E message \in Messages :
       LET event == [messageFormat |-> messageFormat, message |-> message]
           r == ParseMessage(event, kNullDocument)
       IN parse_last' = [op |-> "ParseMessage", handler |-> handler, event |-> event,
                         status |-> r.status, message |-> r.message]

NextParse == HandleEvent /\ UNCHANGED notParseVars

SpecParse == InitListener /\ [][NextParse]_vars

\* C40, as stated: ParseMessage takes an event with an empty messageFormat
\* for one in the json-0.2 format and parses its message; it returns
\* NotSupported for the formats other than the empty one, json-0.2 and
\* gzip(json-2.0), and for those only.
C40_Original ==
    parse_last.op = "ParseMessage" =>
       LET event == parse_last.event IN
       /\ event.messageFormat = "" =>
             LET r == ParseMessage([event EXCEPT !.messageFormat = "json-0.2"],
                                   kNullDocument)
             IN parse_last.status = r.status /\ parse_last.message = r.message
       /\ parse_last.status = UnknownMessageFormat(event.messageFormat)
             <=> event.messageFormat \notin {"", "json-0.2", "gzip(json-2.0)"}

\* What the code does: an event with an empty messageFormat is refused as of
\* an unknown format, its message not parsed; only json-0.2 and
\* gzip(json-2.0) get past the test of the format.
C40_EmptyFormatRefused ==
    parse_last.op = "ParseMessage" =>
       LET event == parse_last.event IN
       /\ event.messageFormat = "" =>
             /\ parse_last.status = UnknownMessageFormat("")
             /\ parse_last.message = kNullDocument
       /\ parse_last.status = UnknownMessageFormat(event.messageFormat)
             <=> event.messageFormat \notin {"json-0.2", "gzip(json-2.0)"}

====
